---- MODULE Spec2Model ----
(***************************************************************************)
(* Model of the Contentful rich-text renderer (src/src/renderer.ts):       *)
(* the block walker, the inline resolver, the segment merger, the table    *)
(* extractor, documentToRenderPlan and richTextToPlainString; and of the   *)
(* presentation layer (src/src/index.ts): applyTextBlocksToNode and        *)
(* applyMixedContentPlan.                                                  *)
(*                                                                         *)
(* Strings are sequences of one-character strings, so that concatenation,  *)
(* joining and prefix tests are computed.  An optional value (undefined or *)
(* null in the source) is a sequence of length 0 or 1.                     *)
(***************************************************************************)
EXTENDS Integers, Sequences, FiniteSets, TLC

\* ------------------------------------------------------------------ bounds
\* Longest document (number of top-level blocks) drawn in Init.
MaxTop == 2
\* Deepest nesting of container blocks (blockquotes, lists, wrappers) drawn in Init.
MaxDepth == 2
\* Longest segment sequence handed to mergeAdjacentSegments in InitMerge.
MaxSegs == 3

\* ----------------------------------------------------------------- strings
None == <<>>
Some(v) == <<v>>

\* JavaScript truthiness of an optional string: undefined, null and "" are falsy.
Truthy(o) == o # None /\ o[1] # <<>>

\* a || b on optional strings
OrElse(a, b) == IF Truthy(a) THEN a ELSE b

RECURSIVE join(_, _)
\* Array.prototype.join for an array of strings
join(strs, sep) ==
    IF strs = <<>> THEN <<>>
    ELSE IF Len(strs) = 1 THEN strs[1]
    ELSE strs[1] \o sep \o join(Tail(strs), sep)

TAB == <<"\t">>
NL == <<"\n">>

\* -------------------------------------------------------------- data model
\* A Text leaf: a value and optional marks (a sequence of mark type names).
Text(value, marks) == [nodeType |-> "text", value |-> value, marks |-> marks]

\* A Block or Inline node: a node type, a data payload and ordered children.
Node(nodeType, data, content) ==
    [nodeType |-> nodeType, data |-> data, content |-> content]

\* data.uri and data.target; target.fields and target.sys; fields.title and
\* fields.file; sys.id.  Every level is optional, as the ?. chains admit.
Data(uri, target) == [uri |-> uri, target |-> target]
Target(fields, sys) == [fields |-> fields, sys |-> sys]
Fields(title, file) == [title |-> title, file |-> file]
NoData == Data(None, None)

\* fields.title: undefined, a plain string, or a record of locales.
TitleUndefined == [t |-> "undefined"]
TitleString(s) == [t |-> "string", s |-> s]
TitleObject(enUS) == [t |-> "object", enUS |-> enUS]

\* fields.file: undefined, {url?}, or a record of locales of {url?}.
FileUndefined == [t |-> "undefined"]
FilePlain(url) == [t |-> "plain", url |-> url]
FileLocalized(enUS) == [t |-> "localized", enUS |-> enUS]

\* Only Block and Inline nodes own a content array; a Text leaf has none.
HasContent(node) == node.nodeType # "text"

\* data?.target?.fields
targetFields(node) ==
    IF node.data.target = None THEN None ELSE node.data.target[1].fields

\* data?.target?.sys?.id
targetSysId(node) ==
    IF node.data.target = None THEN None
    ELSE IF node.data.target[1].sys = None THEN None
    ELSE node.data.target[1].sys[1]

\* typeof title === "object" ? title["en-US"] : title
localizedTitle(node) ==
    LET f == targetFields(node) IN
    IF f = None THEN None
    ELSE CASE f[1].title.t = "object" -> f[1].title.enUS
           [] f[1].title.t = "string" -> Some(f[1].title.s)
           [] OTHER -> None

\* ------------------------------------------------------ formatting context
null == "null"

DEFAULT_CONTEXT ==
    [headingLevel |-> 0, listType |-> null, listIndent |-> 0, isBlockquote |-> FALSE]

\* ----------------------------------------------------------- mark resolver
\* Mutant of hasMarks: only the first mark is looked at.
hasMarksFirst(node, markType) ==
    IF node.marks = None THEN FALSE
    ELSE Len(node.marks[1]) > 0 /\ node.marks[1][1] = markType

\* node.marks?.some((m) => m.type === markType) ?? false
hasMarks(node, markType) ==
    IF node.marks = None THEN FALSE
    ELSE \E k \in 1..Len(node.marks[1]) : node.marks[1][k] = markType

textNodeToSegment(node, ctx) ==
    [text |-> node.value,
     bold |-> hasMarks(node, "bold"),
     italic |-> hasMarks(node, "italic"),
     underline |-> hasMarks(node, "underline"),
     code |-> hasMarks(node, "code"),
     headingLevel |-> ctx.headingLevel,
     listType |-> ctx.listType,
     listIndent |-> ctx.listIndent,
     hyperlink |-> None]

\* --------------------------------------------------------- inline resolver
isHyperlink(nodeType) ==
    nodeType \in {"hyperlink", "entry-hyperlink", "asset-hyperlink"}

\* data?.target?.fields?.file?.url, the file read as {url?}
targetFileUrl(node) ==
    LET f == targetFields(node) IN
    IF f = None THEN None
    ELSE IF f[1].file.t = "plain" THEN f[1].file.url ELSE None

\* href = data?.uri || data?.target?.fields?.file?.url || null
resolveHref(inline) ==
    IF isHyperlink(inline.nodeType)
    THEN LET h == OrElse(inline.data.uri, targetFileUrl(inline))
         IN IF Truthy(h) THEN h ELSE None
    ELSE None

\* Mutant of linkSegment: the hyperlink is set, the underline is not forced.
linkSegmentNoUnderline(seg, href) == [seg EXCEPT !.hyperlink = href]

\* seg.hyperlink = href; seg.underline = true
linkSegment(seg, href) == [seg EXCEPT !.hyperlink = href, !.underline = TRUE]

\* Mutant of entryTitle: sys.id is left out of the fallback chain.
entryTitleNoId(node) ==
    OrElse(localizedTitle(node), Some(<<"e", "n", "t", "r", "y">>))[1]

\* title || sys.id || "entry"
entryTitle(node) ==
    OrElse(OrElse(localizedTitle(node), targetSysId(node)),
           Some(<<"e", "n", "t", "r", "y">>))[1]

\* Mutant of inlineEntrySegment: the root context in place of the current one.
inlineEntrySegmentRoot(inline, ctx) ==
    [text |-> <<"[">> \o entryTitle(inline) \o <<"]">>,
     bold |-> FALSE,
     italic |-> TRUE,
     underline |-> FALSE,
     code |-> FALSE,
     headingLevel |-> DEFAULT_CONTEXT.headingLevel,
     listType |-> DEFAULT_CONTEXT.listType,
     listIndent |-> DEFAULT_CONTEXT.listIndent,
     hyperlink |-> None]

inlineEntrySegment(inline, ctx) ==
    [text |-> <<"[">> \o entryTitle(inline) \o <<"]">>,
     bold |-> FALSE,
     italic |-> TRUE,
     underline |-> FALSE,
     code |-> FALSE,
     headingLevel |-> ctx.headingLevel,
     listType |-> ctx.listType,
     listIndent |-> ctx.listIndent,
     hyperlink |-> None]

RECURSIVE inlineTextSegments(_, _, _)
\* the for-of loop over inline.content: one segment per Text child
inlineTextSegments(content, ctx, href) ==
    IF content = <<>> THEN <<>>
    ELSE LET child == Head(content)
             rest == inlineTextSegments(Tail(content), ctx, href)
         IN IF child.nodeType = "text"
            THEN LET seg == textNodeToSegment(child, ctx)
                 IN <<IF Truthy(href) THEN linkSegment(seg, href) ELSE seg>> \o rest
            ELSE rest

collectSegmentsFromInline(inline, ctx) ==
    inlineTextSegments(inline.content, ctx, resolveHref(inline))
    \o (IF inline.nodeType = "embedded-entry-inline"
        THEN <<inlineEntrySegment(inline, ctx)>>
        ELSE <<>>)

\* ------------------------------------------------------------ block walker
BlockNodeTypes ==
    {"paragraph", "heading-1", "heading-2", "heading-3", "heading-4",
     "heading-5", "heading-6", "blockquote", "unordered-list", "ordered-list",
     "list-item", "table", "table-row", "table-cell", "table-header-cell",
     "hr", "embedded-asset-block", "embedded-entry-block"}

isBlockNode(nodeType) == nodeType \in BlockNodeTypes

\* The node types of the model's documents that start with "heading-".
HeadingTypes ==
    {"heading-1", "heading-2", "heading-3", "heading-4", "heading-5", "heading-6"}

\* nodeType.startsWith("heading-")
startsWithHeading(nodeType) == nodeType \in HeadingTypes

\* nodeType.match(/^heading-(\d)$/) ? parseInt(match[1], 10) : 0
headingLevelFromNodeType(nodeType) ==
    CASE nodeType = "heading-1" -> 1
      [] nodeType = "heading-2" -> 2
      [] nodeType = "heading-3" -> 3
      [] nodeType = "heading-4" -> 4
      [] nodeType = "heading-5" -> 5
      [] nodeType = "heading-6" -> 6
      [] OTHER -> 0

\* Mutant of headingContext: the heading level is added to the inherited one.
headingContextAdded(parentCtx, nodeType) ==
    [parentCtx EXCEPT
        !.headingLevel = parentCtx.headingLevel + headingLevelFromNodeType(nodeType)]

\* { ...parentCtx, headingLevel: headingLevelFromNodeType(nodeType) }
headingContext(parentCtx, nodeType) ==
    [parentCtx EXCEPT !.headingLevel = headingLevelFromNodeType(nodeType)]

\* { ...parentCtx, isBlockquote: true }
blockquoteContext(parentCtx) == [parentCtx EXCEPT !.isBlockquote = TRUE]

\* Mutant of listItemContext: the indent counts from the root, not the parent.
listItemContextFlat(parentCtx, nodeType) ==
    [parentCtx EXCEPT
        !.listType = IF nodeType = "unordered-list" THEN "unordered" ELSE "ordered",
        !.listIndent = DEFAULT_CONTEXT.listIndent + 1]

\* { ...parentCtx, listType, listIndent: parentCtx.listIndent + 1 }
listItemContext(parentCtx, nodeType) ==
    [parentCtx EXCEPT
        !.listType = IF nodeType = "unordered-list" THEN "unordered" ELSE "ordered",
        !.listIndent = parentCtx.listIndent + 1]

\* The synthetic segment of one table row in the walker's table branch.
rowSegment(cellTexts) ==
    [text |-> join(cellTexts, TAB),
     bold |-> FALSE,
     italic |-> FALSE,
     underline |-> FALSE,
     code |-> FALSE,
     headingLevel |-> 0,
     listType |-> null,
     listIndent |-> 0,
     hyperlink |-> None]

RECURSIVE textOf(_)
\* segs.map((s) => s.text).join("")
textOf(segs) == IF segs = <<>> THEN <<>> ELSE Head(segs).text \o textOf(Tail(segs))

\* A walk either returns its segments or throws (a TypeError, when a loop
\* iterates the content of a node that has none).
Returned(segs) == [ok |-> TRUE, segs |-> segs]
Thrown == [ok |-> FALSE, segs |-> <<>>]

\* segments.push(...next) after a first part that may have thrown
Both(first, next) ==
    IF first.ok /\ next.ok THEN Returned(first.segs \o next.segs) ELSE Thrown

RECURSIVE processBlock(_, _)
RECURSIVE collectChildren(_, _)
RECURSIVE processEach(_, _)
RECURSIVE processListItems(_, _, _)
RECURSIVE processRowCells(_, _)
RECURSIVE processTableRows(_, _)

\* The loop of collectSegmentsFromBlock over block.content.
collectChildren(content, ctx) ==
    IF content = <<>> THEN Returned(<<>>)
    ELSE LET child == Head(content)
             here == IF child.nodeType = "text"
                     THEN Returned(<<textNodeToSegment(child, ctx)>>)
                     ELSE IF HasContent(child) /\ ~isBlockNode(child.nodeType)
                     THEN Returned(collectSegmentsFromInline(child, ctx))
                     ELSE IF isBlockNode(child.nodeType)
                     THEN processBlock(child, ctx)
                     ELSE Returned(<<>>)
         IN Both(here, collectChildren(Tail(content), ctx))

collectSegmentsFromBlock(block, ctx) ==
    IF HasContent(block) THEN collectChildren(block.content, ctx) ELSE Thrown

\* for (const child of content) segments.push(...processBlock(child, ctx))
processEach(content, ctx) ==
    IF content = <<>> THEN Returned(<<>>)
    ELSE Both(processBlock(Head(content), ctx), processEach(Tail(content), ctx))

\* The loop of the list branch: only list-item children are entered.
processListItems(content, parentCtx, nodeType) ==
    IF content = <<>> THEN Returned(<<>>)
    ELSE LET child == Head(content)
             here == IF child.nodeType = "list-item"
                     THEN processEach(child.content,
                                      listItemContext(parentCtx, nodeType))
                     ELSE Returned(<<>>)
         IN Both(here, processListItems(Tail(content), parentCtx, nodeType))

\* The loop over one row's cells in the table branch: the result's segs are
\* the cell texts (cellTexts), not segments.
processRowCells(cells, parentCtx) ==
    IF cells = <<>> THEN Returned(<<>>)
    ELSE LET cellSegs == processBlock(Head(cells), parentCtx)
             rest == processRowCells(Tail(cells), parentCtx)
         IN IF cellSegs.ok /\ rest.ok
            THEN Returned(<<textOf(cellSegs.segs)>> \o rest.segs)
            ELSE Thrown

\* The loop of the table branch: one synthetic segment per table-row.
processTableRows(content, parentCtx) ==
    IF content = <<>> THEN Returned(<<>>)
    ELSE LET row == Head(content)
             here == IF row.nodeType = "table-row"
                     THEN LET cellTexts == processRowCells(row.content, parentCtx)
                          IN IF cellTexts.ok
                             THEN Returned(<<rowSegment(cellTexts.segs)>>)
                             ELSE Thrown
                     ELSE Returned(<<>>)
         IN Both(here, processTableRows(Tail(content), parentCtx))

processBlock(block, parentCtx) ==
    LET nodeType == block.nodeType IN
    IF startsWithHeading(nodeType)
    THEN collectSegmentsFromBlock(block, headingContext(parentCtx, nodeType))
    ELSE IF nodeType = "paragraph"
    THEN collectSegmentsFromBlock(block, parentCtx)
    ELSE IF nodeType = "blockquote"
    THEN processEach(block.content, blockquoteContext(parentCtx))
    ELSE IF nodeType \in {"unordered-list", "ordered-list"}
    THEN processListItems(block.content, parentCtx, nodeType)
    ELSE IF nodeType = "table"
    THEN processTableRows(block.content, parentCtx)
    ELSE IF nodeType \in {"table-cell", "table-header-cell"}
    THEN processEach(block.content, parentCtx)
    ELSE collectSegmentsFromBlock(block, parentCtx)

\* ---------------------------------------------------------- segment merger
\* Mutant of sameFormatting: the hyperlink is left out of the comparison.
sameFormattingNoLink(prev, curr) ==
    /\ prev.bold = curr.bold
    /\ prev.italic = curr.italic
    /\ prev.underline = curr.underline
    /\ prev.code = curr.code
    /\ prev.headingLevel = curr.headingLevel
    /\ prev.listType = curr.listType
    /\ prev.listIndent = curr.listIndent

\* The comparison of prev and curr across the eight formatting fields.
sameFormatting(prev, curr) ==
    /\ prev.bold = curr.bold
    /\ prev.italic = curr.italic
    /\ prev.underline = curr.underline
    /\ prev.code = curr.code
    /\ prev.headingLevel = curr.headingLevel
    /\ prev.listType = curr.listType
    /\ prev.listIndent = curr.listIndent
    /\ prev.hyperlink = curr.hyperlink

RECURSIVE mergeLoopShort(_, _, _)
\* Mutant of mergeLoop: the loop stops one segment early (i < length - 1).
mergeLoopShort(input, i, merged) ==
    IF i >= Len(input) THEN [merged |-> merged, input |-> input]
    ELSE LET last == Len(merged)
             prev == merged[last]
             curr == input[i]
         IN IF sameFormatting(prev.seg, curr)
            THEN LET text == prev.seg.text \o curr.text
                 IN mergeLoopShort(
                      IF prev.obj = 0 THEN input
                      ELSE [input EXCEPT ![prev.obj].text = text],
                      i + 1,
                      [merged EXCEPT ![last].seg.text = text])
            ELSE mergeLoopShort(input, i + 1, Append(merged, [obj |-> 0, seg |-> curr]))

RECURSIVE mergeLoopKeepPrev(_, _, _)
\* Mutant of mergeLoop: a segment merged into its predecessor loses its text.
mergeLoopKeepPrev(input, i, merged) ==
    IF i > Len(input) THEN [merged |-> merged, input |-> input]
    ELSE LET last == Len(merged)
             prev == merged[last]
             curr == input[i]
         IN IF sameFormatting(prev.seg, curr)
            THEN mergeLoopKeepPrev(input, i + 1, merged)
            ELSE mergeLoopKeepPrev(input, i + 1,
                                   Append(merged, [obj |-> 0, seg |-> curr]))

RECURSIVE mergeLoop(_, _, _)
\* The for loop of mergeAdjacentSegments from index i on.  The input array's
\* objects are input[1..n]; each entry of merged is an object: obj = k > 0
\* when it is the input's k-th object itself, obj = 0 when it is a fresh copy.
\* prev.text += curr.text writes through to the input when prev is shared.
mergeLoop(input, i, merged) ==
    IF i > Len(input) THEN [merged |-> merged, input |-> input]
    ELSE LET last == Len(merged)
             prev == merged[last]
             curr == input[i]
         IN IF sameFormatting(prev.seg, curr)
            THEN LET text == prev.seg.text \o curr.text
                 IN mergeLoop(
                      IF prev.obj = 0 THEN input
                      ELSE [input EXCEPT ![prev.obj].text = text],
                      i + 1,
                      [merged EXCEPT ![last].seg.text = text])
            ELSE mergeLoop(input, i + 1, Append(merged, [obj |-> 0, seg |-> curr]))

\* One call of mergeAdjacentSegments: the objects of the returned array and
\* the input's objects as the call leaves them.
mergeRun(segments) ==
    IF Len(segments) = 0 THEN [merged |-> <<>>, input |-> segments]
    ELSE mergeLoop(segments, 2, <<[obj |-> 1, seg |-> segments[1]]>>)

\* The value mergeAdjacentSegments returns.
mergeAdjacentSegments(segments) ==
    LET run == mergeRun(segments)
    IN [k \in 1..Len(run.merged) |-> run.merged[k].seg]

\* --------------------------------------------------------- table extractor
RECURSIVE tableRowCells(_)
\* The loop over one row's cells in processTableToRows: ok, cells, isHeader.
tableRowCells(cells) ==
    IF cells = <<>> THEN [ok |-> TRUE, cells |-> <<>>, isHeader |-> FALSE]
    ELSE LET cell == Head(cells)
             cellSegments == IF HasContent(cell)
                             THEN processEach(cell.content, DEFAULT_CONTEXT)
                             ELSE Thrown
             rest == tableRowCells(Tail(cells))
         IN IF cellSegments.ok /\ rest.ok
            THEN [ok |-> TRUE,
                  cells |-> <<mergeAdjacentSegments(cellSegments.segs)>> \o rest.cells,
                  isHeader |-> cell.nodeType = "table-header-cell" \/ rest.isHeader]
            ELSE [ok |-> FALSE, cells |-> <<>>, isHeader |-> FALSE]

RECURSIVE tableRows(_)
\* The loop over the table's children in processTableToRows: ok, rows.
tableRows(content) ==
    IF content = <<>> THEN [ok |-> TRUE, rows |-> <<>>]
    ELSE LET row == Head(content)
             rest == tableRows(Tail(content))
         IN IF row.nodeType # "table-row" THEN rest
            ELSE LET r == tableRowCells(row.content)
                 IN IF r.ok /\ rest.ok
                    THEN [ok |-> TRUE,
                          rows |-> <<[cells |-> r.cells, isHeader |-> r.isHeader]>>
                                   \o rest.rows]
                    ELSE [ok |-> FALSE, rows |-> <<>>]

processTableToRows(tableBlock) == tableRows(tableBlock.content)

\* ---------------------------------------------------------- plan assembler
HTTPS == <<"h", "t", "t", "p", "s", ":">>

\* file = fields.file["en-US"] || fields.file, as an optional {url?}
assetFile(node) ==
    LET f == targetFields(node) IN
    IF f = None THEN None
    ELSE CASE f[1].file.t = "localized" ->
                 IF f[1].file.enUS # None THEN f[1].file.enUS
                 ELSE Some([url |-> None])
           [] f[1].file.t = "plain" -> Some([url |-> f[1].file.url])
           [] OTHER -> None

\* Mutant of assetUrl: the URL is passed on without the "https:" prefix.
assetUrlBare(node) ==
    LET file == assetFile(node) IN
    IF file # None /\ Truthy(file[1].url) THEN file[1].url ELSE None

\* Mutant of assetUrl: a URL that already starts with "https:" is passed on
\* as it is, only the others are prefixed.
assetUrlKeepScheme(node) ==
    LET file == assetFile(node) IN
    IF file # None /\ Truthy(file[1].url)
    THEN IF Len(file[1].url[1]) >= Len(HTTPS)
            /\ SubSeq(file[1].url[1], 1, Len(HTTPS)) = HTTPS
         THEN Some(file[1].url[1])
         ELSE Some(HTTPS \o file[1].url[1])
    ELSE None

\* url = file?.url ? `https:${file.url}` : null
assetUrl(node) ==
    LET file == assetFile(node) IN
    IF file # None /\ Truthy(file[1].url) THEN Some(HTTPS \o file[1].url[1])
    ELSE None

\* title = (localized or plain title) || "image"
assetTitle(node) ==
    OrElse(localizedTitle(node), Some(<<"i", "m", "a", "g", "e">>))[1]

imageBlock(url, title) == [type |-> "image", url |-> url, title |-> title]

\* `[Embedded: ${title}]`
embeddedText(node) ==
    <<"[", "E", "m", "b", "e", "d", "d", "e", "d", ":", " ">>
    \o entryTitle(node) \o <<"]">>

entryBlock(node) ==
    [type |-> "text",
     segments |-> <<[text |-> embeddedText(node),
                     bold |-> FALSE,
                     italic |-> TRUE,
                     underline |-> FALSE,
                     code |-> FALSE,
                     headingLevel |-> 0,
                     listType |-> null,
                     listIndent |-> 0,
                     hyperlink |-> None]>>]

hrBlock == [type |-> "hr"]

tableBlock(rows) == [type |-> "table", rows |-> rows]

textBlock(segments) ==
    [type |-> "text", segments |-> mergeAdjacentSegments(segments)]

\* ----------------------------------------------------- plain-text assembler
DASHES == <<"-", "-", "-">>

\* title = (localized or plain title) || "[image]"; the line is `[${title}]`
plainAssetLine(node) ==
    <<"[">>
    \o OrElse(localizedTitle(node), Some(<<"[", "i", "m", "a", "g", "e", "]">>))[1]
    \o <<"]">>

\* ------------------------------------------------------------------ inputs
\* The documents Init draws from.  Leaf values are digits; titles, ids and
\* URLs use other characters.
SeqsUpTo(S, n) == UNION {[1..k -> S] : k \in 0..n}

Values == {<<>>, <<"1">>, <<"2">>}

MarkSets ==
    {None, Some(<<>>), Some(<<"bold">>), Some(<<"underline">>),
     Some(<<"italic", "code">>), Some(<<"superscript">>)}

Leaves == {Text(v, m) : v \in Values, m \in MarkSets}

T1 == Text(<<"1">>, Some(<<>>))
T2 == Text(<<"2">>, Some(<<"bold">>))
T3 == Text(<<"3">>, Some(<<>>))
T3u == Text(<<"3">>, Some(<<"underline">>))

URI == <<"u">>
URL_REL == <<"/", "/", "h">>
URL_ABS == HTTPS \o URL_REL
TITLE == <<"T">>
ID == <<"i">>

FileVariants ==
    {FileUndefined, FilePlain(None), FilePlain(Some(<<>>)),
     FilePlain(Some(URL_REL)), FilePlain(Some(URL_ABS)),
     FileLocalized(None), FileLocalized(Some([url |-> None])),
     FileLocalized(Some([url |-> Some(URL_REL)]))}

TitleVariants ==
    {TitleUndefined, TitleString(TITLE), TitleString(<<>>),
     TitleObject(Some(TITLE)), TitleObject(None), TitleObject(Some(<<>>))}

SysVariants == {None, Some(None), Some(Some(ID)), Some(Some(<<>>))}

WithFields(title, file, sys) == Data(None, Some(Target(Some(Fields(title, file)), sys)))

LinkData ==
    {NoData,
     Data(Some(URI), None),
     Data(Some(<<>>), Some(Target(Some(Fields(TitleUndefined, FilePlain(Some(URL_REL)))), None))),
     WithFields(TitleUndefined, FileLocalized(Some([url |-> Some(URL_REL)])), None),
     Data(None, Some(Target(None, None)))}

Hyperlinks ==
    {Node("hyperlink", d, c) : d \in LinkData, c \in {<<T1>>, <<T3u>>, <<T1, T2>>, <<>>}}
    \cup {Node(t, d, <<T1>>) : t \in {"entry-hyperlink", "asset-hyperlink"}, d \in LinkData}

InlineEntryData ==
    {NoData,
     WithFields(TitleString(TITLE), FileUndefined, Some(Some(ID))),
     WithFields(TitleObject(Some(TITLE)), FileUndefined, None),
     WithFields(TitleObject(None), FileUndefined, Some(Some(ID))),
     WithFields(TitleString(<<>>), FileUndefined, Some(None))}

InlineEntries ==
    {Node("embedded-entry-inline", d, c) : d \in InlineEntryData, c \in {<<>>, <<T1>>}}

Atoms == Leaves \cup Hyperlinks \cup InlineEntries

Partners ==
    {T1, T2, T3u,
     Node("hyperlink", Data(Some(URI), None), <<T1>>),
     Node("hyperlink", Data(Some(URI), None), <<T3u>>),
     Node("hyperlink", NoData, <<T1>>)}

\* One paragraph, heading or block of unknown type with up to two children.
ShallowBlocks ==
    {Node(t, NoData, c) :
        t \in {"paragraph", "heading-2", "custom-block"},
        c \in {<<>>} \cup {<<a>> : a \in Atoms}
              \cup {<<a, b>> : a \in Atoms, b \in Partners}}

P(content) == Node("paragraph", NoData, content)

\* The innermost nodes of the nested documents: blocks, and a Text leaf and
\* an inline node placed where a block is expected.
Seeds ==
    {P(<<T1>>), Node("heading-2", NoData, <<T2>>), P(<<>>), T1,
     Node("hyperlink", Data(Some(URI), None), <<T1>>)}

Sibling == Node("heading-1", NoData, <<T3>>)

Item(content) == Node("list-item", NoData, content)

Wrappers(x) ==
    {Node("blockquote", NoData, <<x>>),
     Node("blockquote", NoData, <<Sibling, x>>),
     Node("blockquote", NoData, <<x, Sibling>>),
     Node("unordered-list", NoData, <<Item(<<x>>)>>),
     Node("unordered-list", NoData, <<Item(<<Sibling, x>>)>>),
     Node("unordered-list", NoData, <<Item(<<x, Sibling>>)>>),
     Node("ordered-list", NoData, <<Item(<<x>>)>>),
     Node("ordered-list", NoData, <<Item(<<P(<<T3>>)>>), Item(<<x>>)>>),
     Node("ordered-list", NoData, <<P(<<T3>>), Item(<<x>>)>>),
     Node("heading-4", NoData, <<x>>),
     Node("custom-block", NoData, <<x>>)}

RECURSIVE Nested(_)
Nested(d) ==
    IF d = 0 THEN Seeds
    ELSE LET inner == Nested(d - 1) IN inner \cup UNION {Wrappers(x) : x \in inner}

NestedBlocks == {b \in Nested(MaxDepth) : HasContent(b) /\ b.nodeType # "hyperlink"}

Cell(content) == Node("table-cell", NoData, content)
HeaderCell(content) == Node("table-header-cell", NoData, content)
Row(cells) == Node("table-row", NoData, cells)
Table(rows) == Node("table", NoData, rows)

Cells ==
    {Cell(<<P(<<T1>>)>>),
     HeaderCell(<<P(<<T2>>)>>),
     Cell(<<P(<<T1>>), P(<<T3>>)>>),
     Cell(<<>>),
     Cell(<<P(<<Node("hyperlink", Data(Some(URI), None), <<T3>>)>>)>>),
     Cell(<<Node("unordered-list", NoData, <<Item(<<Node("heading-2", NoData, <<T3>>)>>)>>)>>),
     Cell(<<T1>>),
     Cell(<<Node("hyperlink", Data(Some(URI), None), <<T1>>)>>),
     T1}

Rows ==
    {Row(<<>>)} \cup {Row(<<c>>) : c \in Cells}
    \cup {Row(<<c, d>>) : c \in Cells, d \in {Cell(<<P(<<T1>>)>>), HeaderCell(<<P(<<T2>>)>>)}}

SecondRows ==
    {Row(<<Cell(<<P(<<T1>>)>>)>>),
     Row(<<HeaderCell(<<P(<<T2>>)>>), Cell(<<P(<<T3>>)>>)>>),
     Row(<<Cell(<<>>)>>),
     P(<<T3>>)}

Tables ==
    {Table(<<>>), Table(<<P(<<T1>>)>>)}
    \cup {Table(<<r>>) : r \in Rows}
    \cup {Table(<<r, q>>) : r \in Rows, q \in SecondRows}

AssetBlocks ==
    {Node("embedded-asset-block", NoData, <<>>),
     Node("embedded-asset-block", Data(None, Some(Target(None, None))), <<>>)}
    \cup {Node("embedded-asset-block", WithFields(t, f, None), <<>>) :
            t \in TitleVariants, f \in FileVariants}

EntryBlocks ==
    {Node("embedded-entry-block", NoData, <<>>),
     Node("embedded-entry-block", Data(None, Some(Target(None, Some(Some(ID))))), <<>>)}
    \cup {Node("embedded-entry-block", WithFields(t, FileUndefined, y), <<>>) :
            t \in TitleVariants, y \in SysVariants}

\* An embedded-entry-inline in a paragraph or heading of an ordered list's item.
ListedEntries ==
    {Node("ordered-list", NoData, <<Item(<<Node(t, NoData, <<e>>)>>)>>) :
        t \in {"paragraph", "heading-3"}, e \in InlineEntries}

Hr == Node("hr", NoData, <<>>)

\* The top-level blocks of the documents with several blocks.
TopBlocks ==
    {Hr,
     P(<<T1>>),
     P(<<>>),
     P(<<Text(<<>>, Some(<<>>))>>),
     Node("heading-2", NoData, <<T2>>),
     Node("unordered-list", NoData, <<Item(<<P(<<T3>>)>>)>>),
     Node("embedded-asset-block",
          WithFields(TitleString(TITLE), FilePlain(Some(URL_REL)), None), <<>>),
     Node("embedded-asset-block", NoData, <<>>),
     Node("embedded-entry-block",
          WithFields(TitleString(TITLE), FileUndefined, Some(Some(ID))), <<>>),
     Table(<<Row(<<Cell(<<P(<<T1>>)>>), Cell(<<P(<<T2>>)>>)>>)>>),
     Table(<<>>)}

Contents ==
    SeqsUpTo(TopBlocks, MaxTop)
    \cup {<<b>> : b \in ShallowBlocks \cup NestedBlocks \cup Tables
                        \cup AssetBlocks \cup EntryBlocks \cup ListedEntries}

\* A document: null, without content, or with its top-level blocks.
Document(content) == Some([content |-> Some(content)])

Docs == {None, Some([content |-> None])} \cup {Document(c) : c \in Contents}

\* ------------------------------------------------------------------- state
VARIABLES
    doc,      \* the input document
    pc,       \* "idle", or the function whose loop is running: "plan", "plain"
    i,        \* index of the next top-level block of the running loop
    blocks,   \* documentToRenderPlan's blocks array
    lines,    \* richTextToPlainString's lines array
    plan,     \* outcome of the latest documentToRenderPlan call: status and blocks
    plain,    \* outcome of the latest richTextToPlainString call: status and text
    planBefore,  \* outcome of the documentToRenderPlan call before the latest
    plainBefore, \* outcome of the richTextToPlainString call before the latest
    context,  \* the module's DEFAULT_CONTEXT object, shared by all calls
    segments, \* the array handed to mergeAdjacentSegments
    merged,   \* outcome of mergeAdjacentSegments(segments)
    remerged, \* outcome of mergeAdjacentSegments on the first outcome
    fonts,    \* the font styles and monospace families loadFontAsync can load
    renderBlocks, \* the blocks argument of applyMixedContentPlan
    blockIndex, \* index of the next block of applyMixedContentPlan's loop
    frame,    \* the children appended to the layout frame so far
    parent,   \* parent.children: the original text node and the frame
    rendered, \* applyMixedContentPlan's promise: none, running, resolved, rejected
    applyBlocks, \* the textBlocks argument of a direct applyTextBlocksToNode call
    applied   \* outcome of that call: status and the text node after it

vars ==
    <<doc, pc, i, blocks, lines, plan, plain, planBefore, plainBefore, context,
      segments, merged, remerged, fonts, renderBlocks, blockIndex, frame, parent, rendered,
      applyBlocks, applied>>
mergeVars == <<segments, merged, remerged>>
renderVars == <<fonts, renderBlocks, blockIndex, frame, parent, rendered>>
applyVars == <<applyBlocks, applied>>
docVars == <<doc, pc, i, blocks, lines, plan, plain, planBefore, plainBefore, context>>

NotCalled == [status |-> "none"]

\* applyMixedContentPlan has not been called.
NotRendering ==
    /\ fonts = {}
    /\ renderBlocks = <<>>
    /\ blockIndex = 1
    /\ frame = <<>>
    /\ parent = <<"node">>
    /\ rendered = "none"

\* applyTextBlocksToNode has not been called directly.
NotApplying ==
    /\ applyBlocks = <<>>
    /\ applied = NotCalled

Init ==
    /\ doc \in Docs
    /\ pc = "idle"
    /\ i = 1
    /\ blocks = <<>>
    /\ lines = <<>>
    /\ plan = NotCalled
    /\ plain = NotCalled
    /\ planBefore = NotCalled
    /\ plainBefore = NotCalled
    /\ context = DEFAULT_CONTEXT
    /\ NotRendering
    /\ NotApplying
    /\ segments = <<>>
    /\ merged = NotCalled
    /\ remerged = NotCalled

topBlock == doc[1].content[1][i]

\* documentToRenderPlan is called, a first or a second time on the document;
\* doc.content of a null document, and the for-of loop over an absent
\* content, throw.
CallPlan ==
    /\ pc = "idle"
    /\ planBefore = NotCalled
    /\ planBefore' = plan
    /\ IF doc = None \/ doc[1].content = None
       THEN /\ plan' = [status |-> "thrown"]
            /\ UNCHANGED <<pc, i, blocks>>
       ELSE /\ pc' = "plan"
            /\ i' = 1
            /\ blocks' = <<>>
            /\ plan' = NotCalled
    /\ UNCHANGED <<doc, context, lines, plain, plainBefore, mergeVars, renderVars, applyVars>>

PlanThrow ==
    /\ pc' = "idle"
    /\ plan' = [status |-> "thrown"]
    /\ UNCHANGED <<i, blocks>>

\* Mutant of PlanNext: the new block is put in front (unshift for push).
PlanNextUnshift(newBlocks) ==
    /\ blocks' = IF Len(newBlocks) > Len(blocks)
                 THEN <<newBlocks[Len(newBlocks)]>> \o blocks
                 ELSE blocks
    /\ i' = i + 1
    /\ UNCHANGED <<pc, plan>>

\* blocks.push(...) when the branch emits a block, then the next iteration.
PlanNext(newBlocks) ==
    /\ blocks' = newBlocks
    /\ i' = i + 1
    /\ UNCHANGED <<pc, plan>>

InPlanLoop == pc = "plan" /\ i <= Len(doc[1].content[1])

\* Mutant of PlanTable: the table block is pushed without the rows.length test.
PlanTableAlways ==
    /\ InPlanLoop
    /\ topBlock.nodeType = "table"
    /\ LET rows == processTableToRows(topBlock)
       IN IF ~rows.ok THEN PlanThrow
          ELSE PlanNext(Append(blocks, tableBlock(rows.rows)))
    /\ UNCHANGED <<doc, context, planBefore, lines, plain, plainBefore, mergeVars, renderVars, applyVars>>

PlanTable ==
    /\ InPlanLoop
    /\ topBlock.nodeType = "table"
    /\ LET rows == processTableToRows(topBlock)
       IN IF ~rows.ok THEN PlanThrow
          ELSE PlanNext(IF Len(rows.rows) > 0
                        THEN Append(blocks, tableBlock(rows.rows))
                        ELSE blocks)
    /\ UNCHANGED <<doc, context, planBefore, lines, plain, plainBefore, mergeVars, renderVars, applyVars>>

PlanAsset ==
    /\ InPlanLoop
    /\ topBlock.nodeType = "embedded-asset-block"
    /\ LET url == assetUrl(topBlock)
       IN PlanNext(IF Truthy(url)
                   THEN Append(blocks, imageBlock(url[1], assetTitle(topBlock)))
                   ELSE blocks)
    /\ UNCHANGED <<doc, context, planBefore, lines, plain, plainBefore, mergeVars, renderVars, applyVars>>

PlanEntry ==
    /\ InPlanLoop
    /\ topBlock.nodeType = "embedded-entry-block"
    /\ PlanNext(Append(blocks, entryBlock(topBlock)))
    /\ UNCHANGED <<doc, context, planBefore, lines, plain, plainBefore, mergeVars, renderVars, applyVars>>

PlanHr ==
    /\ InPlanLoop
    /\ topBlock.nodeType = "hr"
    /\ PlanNext(Append(blocks, hrBlock))
    /\ UNCHANGED <<doc, context, planBefore, lines, plain, plainBefore, mergeVars, renderVars, applyVars>>

\* Mutant of PlanText: a heading writes its level into the context object it
\* was given (ctx.headingLevel = N) where the code builds a copy.
PlanTextInPlace ==
    /\ InPlanLoop
    /\ topBlock.nodeType \notin
         {"table", "embedded-asset-block", "embedded-entry-block", "hr"}
    /\ context' = IF startsWithHeading(topBlock.nodeType)
                  THEN headingContext(context, topBlock.nodeType)
                  ELSE context
    /\ LET segs == processBlock(topBlock, context)
       IN IF ~segs.ok THEN PlanThrow
          ELSE PlanNext(IF Len(segs.segs) > 0
                        THEN Append(blocks, textBlock(segs.segs))
                        ELSE blocks)
    /\ UNCHANGED <<doc, planBefore, lines, plain, plainBefore, mergeVars, renderVars, applyVars>>

PlanText ==
    /\ InPlanLoop
    /\ topBlock.nodeType \notin
         {"table", "embedded-asset-block", "embedded-entry-block", "hr"}
    /\ LET segs == processBlock(topBlock, context)
       IN IF ~segs.ok THEN PlanThrow
          ELSE PlanNext(IF Len(segs.segs) > 0
                        THEN Append(blocks, textBlock(segs.segs))
                        ELSE blocks)
    /\ UNCHANGED <<doc, context, planBefore, lines, plain, plainBefore, mergeVars, renderVars, applyVars>>

PlanReturn ==
    /\ pc = "plan"
    /\ i > Len(doc[1].content[1])
    /\ pc' = "idle"
    /\ plan' = [status |-> "returned", blocks |-> blocks]
    /\ UNCHANGED <<doc, context, planBefore, i, blocks, lines, plain, plainBefore, mergeVars, renderVars, applyVars>>

\* richTextToPlainString is called, a first or a second time on the
\* document; a null document or an absent content returns "" at once.
CallPlain ==
    /\ pc = "idle"
    /\ plainBefore = NotCalled
    /\ plainBefore' = plain
    /\ IF doc = None \/ doc[1].content = None
       THEN /\ plain' = [status |-> "returned", text |-> <<>>]
            /\ UNCHANGED <<pc, i, lines>>
       ELSE /\ pc' = "plain"
            /\ i' = 1
            /\ lines' = <<>>
            /\ plain' = NotCalled
    /\ UNCHANGED <<doc, context, blocks, plan, planBefore, mergeVars, renderVars, applyVars>>

PlainNext(newLines) ==
    /\ lines' = newLines
    /\ i' = i + 1
    /\ UNCHANGED <<pc, plain>>

InPlainLoop == pc = "plain" /\ i <= Len(doc[1].content[1])

PlainHr ==
    /\ InPlainLoop
    /\ topBlock.nodeType = "hr"
    /\ PlainNext(Append(lines, DASHES))
    /\ UNCHANGED <<doc, context, plainBefore, blocks, plan, planBefore, mergeVars, renderVars, applyVars>>

PlainAsset ==
    /\ InPlainLoop
    /\ topBlock.nodeType = "embedded-asset-block"
    /\ PlainNext(Append(lines, plainAssetLine(topBlock)))
    /\ UNCHANGED <<doc, context, plainBefore, blocks, plan, planBefore, mergeVars, renderVars, applyVars>>

PlainEntry ==
    /\ InPlainLoop
    /\ topBlock.nodeType = "embedded-entry-block"
    /\ PlainNext(Append(lines, embeddedText(topBlock)))
    /\ UNCHANGED <<doc, context, plainBefore, blocks, plan, planBefore, mergeVars, renderVars, applyVars>>

\* Mutant of PlainText: the line is pushed without the lineText test.
PlainTextKeepEmpty ==
    /\ InPlainLoop
    /\ topBlock.nodeType \notin {"hr", "embedded-asset-block", "embedded-entry-block"}
    /\ LET segs == processBlock(topBlock, context)
       IN IF ~segs.ok
          THEN /\ pc' = "idle"
               /\ plain' = [status |-> "thrown"]
               /\ UNCHANGED <<i, lines>>
          ELSE PlainNext(Append(lines, textOf(segs.segs)))
    /\ UNCHANGED <<doc, context, plainBefore, blocks, plan, planBefore, mergeVars, renderVars, applyVars>>

PlainText ==
    /\ InPlainLoop
    /\ topBlock.nodeType \notin {"hr", "embedded-asset-block", "embedded-entry-block"}
    /\ LET segs == processBlock(topBlock, context)
       IN IF ~segs.ok
          THEN /\ pc' = "idle"
               /\ plain' = [status |-> "thrown"]
               /\ UNCHANGED <<i, lines>>
          ELSE LET lineText == textOf(segs.segs)
               IN PlainNext(IF lineText # <<>> THEN Append(lines, lineText) ELSE lines)
    /\ UNCHANGED <<doc, context, plainBefore, blocks, plan, planBefore, mergeVars, renderVars, applyVars>>

PlainReturn ==
    /\ pc = "plain"
    /\ i > Len(doc[1].content[1])
    /\ pc' = "idle"
    /\ plain' = [status |-> "returned", text |-> join(lines, NL)]
    /\ UNCHANGED <<doc, context, plainBefore, i, blocks, lines, plan, planBefore, mergeVars, renderVars, applyVars>>

Next ==
    \/ CallPlan
    \/ PlanTable
    \/ PlanAsset
    \/ PlanEntry
    \/ PlanHr
    \/ PlanText
    \/ PlanReturn
    \/ CallPlain
    \/ PlainHr
    \/ PlainAsset
    \/ PlainEntry
    \/ PlainText
    \/ PlainReturn

Spec == Init /\ [][Next]_vars

\* ------------------------------------------- the segment merger on its own
\* Segments that differ from the first in exactly one formatting field, and
\* texts that tell the segments of a run apart.
Plain0 ==
    [text |-> <<"1">>, bold |-> FALSE, italic |-> FALSE, underline |-> FALSE,
     code |-> FALSE, headingLevel |-> 0, listType |-> null, listIndent |-> 0,
     hyperlink |-> None]

Formats ==
    {Plain0,
     [Plain0 EXCEPT !.bold = TRUE],
     [Plain0 EXCEPT !.italic = TRUE],
     [Plain0 EXCEPT !.underline = TRUE],
     [Plain0 EXCEPT !.code = TRUE],
     [Plain0 EXCEPT !.headingLevel = 1],
     [Plain0 EXCEPT !.listType = "ordered"],
     [Plain0 EXCEPT !.listIndent = 1],
     [Plain0 EXCEPT !.hyperlink = Some(URI)]}

Segments ==
    {[f EXCEPT !.text = t] : f \in Formats, t \in {<<"1">>, <<"2">>}}
    \cup {[Plain0 EXCEPT !.text = <<>>]}

InitMerge ==
    /\ segments \in SeqsUpTo(Segments, MaxSegs)
    /\ merged = NotCalled
    /\ remerged = NotCalled
    /\ doc = None
    /\ pc = "idle"
    /\ i = 1
    /\ blocks = <<>>
    /\ lines = <<>>
    /\ plan = NotCalled
    /\ plain = NotCalled
    /\ planBefore = NotCalled
    /\ plainBefore = NotCalled
    /\ context = DEFAULT_CONTEXT
    /\ NotRendering
    /\ NotApplying

\* mergeAdjacentSegments(segments): the returned array's objects and the
\* input's objects after the call.
Merge ==
    /\ merged = NotCalled
    /\ LET run == mergeRun(segments)
       IN merged' = [status |-> "returned", objects |-> run.merged, input |-> run.input]
    /\ UNCHANGED <<segments, remerged, docVars, renderVars, applyVars>>

\* mergeAdjacentSegments on the array the first call returned.
MergeAgain ==
    /\ merged # NotCalled
    /\ remerged = NotCalled
    /\ LET first == [k \in 1..Len(merged.objects) |-> merged.objects[k].seg]
           run == mergeRun(first)
       IN remerged' = [status |-> "returned", objects |-> run.merged, input |-> run.input]
    /\ UNCHANGED <<segments, merged, docVars, renderVars, applyVars>>

NextMerge == Merge \/ MergeAgain

SpecMerge == InitMerge /\ [][NextMerge]_vars

\* ------------------------------------------------ the presentation layer
\* The font of the text node that is replaced, and its size.
BASE_FONT == [family |-> "Inter", style |-> "Regular"]

BaseFontSize == 16

\* Heading scale factors, in percent of the base font size.
HEADING_SCALE == <<200, 150, 125, 110, 100, 90>>

\* try { await loadFontAsync(fontName); return fontName } catch { return null }
loadFontVariant(family, style) ==
    LET fontName == [family |-> family, style |-> style]
    IN IF fontName \in fonts THEN Some(fontName) ELSE None

\* (results[k].status === "fulfilled" && results[k].value) || baseFont
variantOr(loaded, baseFont) == IF loaded # None THEN loaded[1] ELSE baseFont

resolveFontVariants(baseFont) ==
    [base |-> baseFont,
     bold |-> variantOr(loadFontVariant(baseFont.family, "Bold"), baseFont),
     italic |-> variantOr(loadFontVariant(baseFont.family, "Italic"), baseFont),
     boldItalic |-> variantOr(loadFontVariant(baseFont.family, "Bold Italic"), baseFont)]

getFontForSegment(seg, variants) ==
    IF seg.bold /\ seg.italic THEN variants.boldItalic
    ELSE IF seg.bold THEN variants.bold
    ELSE IF seg.italic THEN variants.italic
    ELSE variants.base

\* The separator pushed after a text block, and the rule pushed for an hr.
separator(text) ==
    [text |-> text, bold |-> FALSE, italic |-> FALSE, underline |-> FALSE,
     code |-> FALSE, headingLevel |-> 0, listType |-> null, listIndent |-> 0,
     hyperlink |-> None]

\* Characters outside ASCII are written by their code point: the box-drawing
\* dash of the rule and the bullet of an unordered item.
BOX_DASH == "u2500"
BULLET == "u2022"

RULE == [k \in 1..15 |-> BOX_DASH] \o NL

RECURSIVE collectAll(_)
\* The loop that collects the segments of all blocks.
collectAll(textBlocks) ==
    IF textBlocks = <<>> THEN <<>>
    ELSE LET block == Head(textBlocks)
         IN (IF block.type = "text" THEN block.segments \o <<separator(NL)>>
             ELSE IF block.type = "hr" THEN <<separator(RULE)>>
             ELSE <<>>)
            \o collectAll(Tail(textBlocks))

\* allSegments after the trailing newline is popped.
allSegmentsOf(textBlocks) ==
    LET all == collectAll(textBlocks)
    IN IF Len(all) > 0 /\ all[Len(all)].text = NL
       THEN SubSeq(all, 1, Len(all) - 1)
       ELSE all

RECURSIVE repeat(_, _)
\* str.repeat(n)
repeat(str, n) == IF n <= 0 THEN <<>> ELSE str \o repeat(str, n - 1)

RECURSIVE decimal(_)
\* `${n}` of a non-negative integer
decimal(n) ==
    LET digits == <<"0", "1", "2", "3", "4", "5", "6", "7", "8", "9">>
    IN IF n < 10 THEN <<digits[n + 1]>>
       ELSE decimal(n \div 10) \o <<digits[(n % 10) + 1]>>

\* seg.listType && seg.text !== "\n"
prefixed(seg) == seg.listType # null /\ seg.text # NL

\* orderedCounter after the segment's branch
counterAfter(seg, orderedCounter) ==
    IF prefixed(seg)
    THEN IF seg.listType = "unordered" THEN 0 ELSE orderedCounter + 1
    ELSE IF seg.listType = null THEN 0 ELSE orderedCounter

\* The list prefix of a segment, orderedCounter being the counter after it.
listPrefix(seg, orderedCounter) ==
    LET indent == repeat(<<" ", " ">>, seg.listIndent - 1)
    IN IF ~prefixed(seg) THEN <<>>
       ELSE IF seg.listType = "unordered" THEN indent \o <<BULLET, " ">>
       ELSE indent \o decimal(orderedCounter) \o <<".", " ">>

RECURSIVE buildFullText(_, _)
\* The loop that builds fullText with the list prefixes.
buildFullText(segs, orderedCounter) ==
    IF segs = <<>> THEN <<>>
    ELSE LET seg == Head(segs)
             counter == counterAfter(seg, orderedCounter)
         IN listPrefix(seg, counter) \o seg.text \o buildFullText(Tail(segs), counter)

\* Math.round(baseFontSize * scale), scale = HEADING_SCALE[level] || 1.0
headingSize(level) ==
    LET scale == IF level \in 1..Len(HEADING_SCALE) THEN HEADING_SCALE[level] ELSE 100
    IN (BaseFontSize * scale + 50) \div 100

\* The formatting one segment's range receives.
rangeFormat(seg, segStart, segEnd, variants, monoFont) ==
    [start |-> segStart,
     end |-> segEnd,
     font |-> IF seg.code /\ monoFont # None THEN monoFont[1]
              ELSE getFontForSegment(seg, variants),
     size |-> IF seg.headingLevel > 0 THEN Some(headingSize(seg.headingLevel)) ELSE None,
     underline |-> seg.underline,
     hyperlink |-> IF Truthy(seg.hyperlink) THEN seg.hyperlink ELSE None]

\* orderedCounter after the segment's branch in the formatting pass
rangeCounter(seg, orderedCounter) ==
    IF seg.listType # null /\ seg.text # NL
    THEN IF seg.listType = "unordered" THEN 0 ELSE orderedCounter + 1
    ELSE IF seg.listType = null THEN 0 ELSE orderedCounter

\* Mutant of prefixLen: the indent of a list prefix is not counted.
prefixLenFlat(seg, orderedCounter) ==
    IF seg.listType # null /\ seg.text # NL
    THEN IF seg.listType = "unordered" THEN 2
         ELSE Len(decimal(orderedCounter) \o <<".", " ">>)
    ELSE 0

\* prefixLen of a segment in the formatting pass, orderedCounter being the
\* counter after it.
prefixLen(seg, orderedCounter) ==
    LET indent == repeat(<<" ", " ">>, seg.listIndent - 1)
    IN IF seg.listType # null /\ seg.text # NL
       THEN IF seg.listType = "unordered" THEN Len(indent) + 2
            ELSE Len(indent) + Len(decimal(orderedCounter) \o <<".", " ">>)
       ELSE 0

RECURSIVE rangeBounds(_, _, _)
\* segStart and segEnd of every segment, as the formatting loop computes them.
rangeBounds(segs, offset, orderedCounter) ==
    IF segs = <<>> THEN <<>>
    ELSE LET seg == Head(segs)
             counter == rangeCounter(seg, orderedCounter)
             segStart == offset + prefixLen(seg, counter)
             segEnd == segStart + Len(seg.text)
         IN <<[seg |-> seg, segStart |-> segStart, segEnd |-> segEnd]>>
            \o rangeBounds(Tail(segs), segEnd, counter)

\* The loop that applies the range-based formatting: the ranges of the
\* segments that pass the guard, in order.
formatRanges(segs, offset, orderedCounter, fullLength, variants, monoFont) ==
    LET guarded(b) == Len(b.seg.text) > 0 /\ b.segEnd <= fullLength
        formatted == SelectSeq(rangeBounds(segs, offset, orderedCounter), guarded)
    IN [k \in 1..Len(formatted) |->
          rangeFormat(formatted[k].seg, formatted[k].segStart, formatted[k].segEnd,
                      variants, monoFont)]

\* figmaApi.createText() with the base font set.
createText == [type |-> "TEXT", fontName |-> BASE_FONT, characters |-> <<>>, ranges |-> <<>>]

\* The text node after applyTextBlocksToNode(figmaApi, node, textBlocks).
applyTextBlocksToNode(node, textBlocks) ==
    LET allSegments == allSegmentsOf(textBlocks)
        fullText == buildFullText(allSegments, 0)
        variants == resolveFontVariants(node.fontName)
        hasCode == \E k \in 1..Len(allSegments) : allSegments[k].code
        roboto == loadFontVariant("Roboto Mono", "Regular")
        monoFont == IF ~hasCode THEN None
                    ELSE IF roboto # None THEN roboto
                    ELSE loadFontVariant("Courier New", "Regular")
    IN IF Len(allSegments) = 0 THEN node
       ELSE [node EXCEPT
               !.characters = fullText,
               !.ranges = formatRanges(allSegments, 0, 0, Len(fullText), variants, monoFont)]

\* The rectangle of an image block: the image as fill, or the grey fallback.
imageRectangle(block, loaded) ==
    [type |-> "RECTANGLE",
     name |-> IF block.title # <<>> THEN block.title
              ELSE <<"E", "m", "b", "e", "d", "d", "e", "d", " ", "I", "m", "a", "g", "e">>,
     fill |-> IF loaded THEN "IMAGE" ELSE "SOLID"]

\* One cell's text node: the cell's plain text, bold in a header row when the
\* Bold variant could be loaded.
cellText(cellSegments, isHeader) ==
    LET plainText == textOf(cellSegments)
    IN [type |-> "TEXT",
        characters |-> IF plainText # <<>> THEN plainText ELSE <<" ">>,
        fontName |-> IF isHeader /\ loadFontVariant(BASE_FONT.family, "Bold") # None
                     THEN [family |-> BASE_FONT.family, style |-> "Bold"]
                     ELSE BASE_FONT]

rowFrame(row) ==
    [type |-> "FRAME",
     name |-> IF row.isHeader THEN "Header Row" ELSE "Row",
     children |-> [c \in 1..Len(row.cells) |-> cellText(row.cells[c], row.isHeader)]]

tableFrame(block) ==
    [type |-> "FRAME",
     name |-> "Table",
     children |-> [k \in 1..Len(block.rows) |-> rowFrame(block.rows[k])]]

\* seq without the child
without(children, child) ==
    LET Other(c) == c # child IN SelectSeq(children, Other)

\* parent.appendChild(child)
appendChild(children, child) == Append(without(children, child), child)

\* parent.children.indexOf(node), -1 when absent
indexOf(children, node) ==
    IF \E k \in 1..Len(children) : children[k] = node
    THEN (CHOOSE k \in 1..Len(children) :
            children[k] = node /\ \A m \in 1..(k - 1) : children[m] # node) - 1
    ELSE -1

\* parent.insertChild(index, child), index counted among the children at the call
insertChild(children, index, child) ==
    LET before == without(SubSeq(children, 1, index), child)
        after == without(SubSeq(children, index + 1, Len(children)), child)
    IN before \o <<child>> \o after

\* The render blocks applyMixedContentPlan is called with.
RenderSegments ==
    {<<Plain0>>,
     <<[Plain0 EXCEPT !.bold = TRUE, !.italic = TRUE, !.headingLevel = 2],
       [Plain0 EXCEPT !.text = <<"2">>, !.code = TRUE, !.underline = TRUE,
                      !.hyperlink = Some(URI)]>>,
     <<[Plain0 EXCEPT !.listType = "ordered", !.listIndent = 2],
       [Plain0 EXCEPT !.text = <<"2">>, !.listType = "unordered", !.listIndent = 1,
                      !.bold = TRUE]>>}

RenderBlockSet ==
    {[type |-> "text", segments |-> sg] : sg \in RenderSegments}
    \cup {hrBlock,
          imageBlock(URL_ABS, TITLE),
          imageBlock(URL_ABS, <<>>),
          tableBlock(<<[cells |-> <<<<Plain0>>, <<>>>>, isHeader |-> TRUE]>>),
          tableBlock(<<[cells |-> <<<<Plain0>>>>, isHeader |-> FALSE],
                       [cells |-> <<>>, isHeader |-> FALSE]>>)}

\* The fonts loadFontAsync can load besides the base font.
FontSets ==
    {v \cup m :
       v \in SUBSET {[family |-> BASE_FONT.family, style |-> st] :
                       st \in {"Bold", "Italic", "Bold Italic"}},
       m \in {{}, {[family |-> "Courier New", style |-> "Regular"]},
              {[family |-> "Roboto Mono", style |-> "Regular"],
               [family |-> "Courier New", style |-> "Regular"]}}}

\* parent.children before the call: the node alone, after a sibling, or absent.
Parents == {<<"node">>, <<"sibling", "node">>, <<"sibling">>}

InitRender ==
    /\ fonts \in FontSets
    /\ renderBlocks \in SeqsUpTo(RenderBlockSet, MaxTop)
    /\ parent \in Parents
    /\ blockIndex = 1
    /\ frame = <<>>
    /\ rendered = "none"
    /\ doc = None
    /\ pc = "idle"
    /\ i = 1
    /\ blocks = <<>>
    /\ lines = <<>>
    /\ plan = NotCalled
    /\ plain = NotCalled
    /\ planBefore = NotCalled
    /\ plainBefore = NotCalled
    /\ context = DEFAULT_CONTEXT
    /\ segments = <<>>
    /\ merged = NotCalled
    /\ remerged = NotCalled
    /\ NotApplying

\* applyMixedContentPlan is called: the empty frame is created.
RenderCall ==
    /\ rendered = "none"
    /\ rendered' = "running"
    /\ frame' = <<>>
    /\ blockIndex' = 1
    /\ UNCHANGED <<fonts, renderBlocks, parent, docVars, mergeVars, applyVars>>

InRenderLoop == rendered = "running" /\ blockIndex <= Len(renderBlocks)

renderBlock == renderBlocks[blockIndex]

\* An awaited promise rejects outside any try: the function's promise rejects.
RenderReject ==
    /\ rendered' = "rejected"
    /\ UNCHANGED <<frame, blockIndex>>

\* frame.appendChild(child), then the next iteration.
RenderNext(child) ==
    /\ frame' = Append(frame, child)
    /\ blockIndex' = blockIndex + 1
    /\ UNCHANGED rendered

\* A text or hr block: the base font is loaded, the text node formatted.
RenderText ==
    /\ InRenderLoop
    /\ renderBlock.type \in {"text", "hr"}
    /\ \E loaded \in BOOLEAN :
         IF loaded
         THEN RenderNext(applyTextBlocksToNode(createText, <<renderBlock>>))
         ELSE RenderReject
    /\ UNCHANGED <<fonts, renderBlocks, parent, docVars, mergeVars, applyVars>>

\* An image block: a failed createImageAsync is caught and warned about.
RenderImage ==
    /\ InRenderLoop
    /\ renderBlock.type = "image"
    /\ \E loaded \in BOOLEAN : RenderNext(imageRectangle(renderBlock, loaded))
    /\ UNCHANGED <<fonts, renderBlocks, parent, docVars, mergeVars, applyVars>>

\* A table block: the base font is loaded once per cell.
RenderTable ==
    /\ InRenderLoop
    /\ renderBlock.type = "table"
    /\ \E loaded \in BOOLEAN :
         IF loaded \/ \A k \in 1..Len(renderBlock.rows) : renderBlock.rows[k].cells = <<>>
         THEN RenderNext(tableFrame(renderBlock))
         ELSE RenderReject
    /\ UNCHANGED <<fonts, renderBlocks, parent, docVars, mergeVars, applyVars>>

\* After the loop: the frame takes the node's place and the node is removed.
RenderAttach ==
    /\ rendered = "running"
    /\ blockIndex > Len(renderBlocks)
    /\ LET appended == appendChild(parent, "frame")
           nodeIndex == indexOf(appended, "node")
           placed == IF nodeIndex >= 0 THEN insertChild(appended, nodeIndex, "frame")
                     ELSE appended
       IN parent' = without(placed, "node")
    /\ rendered' = "resolved"
    /\ UNCHANGED <<fonts, renderBlocks, blockIndex, frame, docVars, mergeVars, applyVars>>

NextRender == RenderCall \/ RenderText \/ RenderImage \/ RenderTable \/ RenderAttach

SpecRender == InitRender /\ [][NextRender]_vars

\* ------------------------------------------------- applyTextBlocksToNode
\* Segments of list items: ordered and unordered, indented, empty, and one
\* whose text is a newline.
Ordered(text, indent, bold) ==
    [Plain0 EXCEPT !.text = text, !.listType = "ordered", !.listIndent = indent,
                   !.bold = bold]

Unordered(text, indent) ==
    [Plain0 EXCEPT !.text = text, !.listType = "unordered", !.listIndent = indent]

\* An ordered list long enough for a counter of two digits.
LongList == [k \in 1..11 |-> Ordered(<<"1">>, 1, k % 2 = 0)]

ApplySegments ==
    {<<>>,
     <<Plain0>>,
     <<Ordered(<<"1">>, 2, FALSE), Unordered(<<"2">>, 1), Ordered(<<"3">>, 1, TRUE)>>,
     <<Ordered(<<"1">>, 1, FALSE), Ordered(NL, 1, TRUE), Ordered(<<>>, 3, FALSE),
       Unordered(<<"2", "3">>, 3)>>,
     <<Unordered(<<"1">>, 0), Plain0, Ordered(<<"2">>, 1, FALSE), Ordered(NL, 1, TRUE)>>,
     LongList}

ApplyBlockSet == {[type |-> "text", segments |-> sg] : sg \in ApplySegments} \cup {hrBlock}

InitApply ==
    /\ fonts \in FontSets
    /\ applyBlocks \in SeqsUpTo(ApplyBlockSet, MaxTop)
    /\ applied = NotCalled
    /\ renderBlocks = <<>>
    /\ blockIndex = 1
    /\ frame = <<>>
    /\ parent = <<"node">>
    /\ rendered = "none"
    /\ doc = None
    /\ pc = "idle"
    /\ i = 1
    /\ blocks = <<>>
    /\ lines = <<>>
    /\ plan = NotCalled
    /\ plain = NotCalled
    /\ planBefore = NotCalled
    /\ plainBefore = NotCalled
    /\ context = DEFAULT_CONTEXT
    /\ segments = <<>>
    /\ merged = NotCalled
    /\ remerged = NotCalled

\* applyTextBlocksToNode(figmaApi, node, applyBlocks) on a fresh text node.
Apply ==
    /\ applied = NotCalled
    /\ applied' = [status |-> "returned",
                   node |-> applyTextBlocksToNode(createText, applyBlocks)]
    /\ UNCHANGED <<applyBlocks, docVars, mergeVars, renderVars>>

NextApply == Apply

SpecApply == InitApply /\ [][NextApply]_vars

\* ------------------------------------------------- vocabulary of the claims
ProperDocument == doc # None /\ doc[1].content # None

content == doc[1].content[1]

Range(seq) == {seq[k] : k \in 1..Len(seq)}

RECURSIVE LeafPaths(_)
\* The paths (child indices from the node down) of the Text leaves below a node.
LeafPaths(node) ==
    IF node.nodeType = "text" THEN {<<>>}
    ELSE UNION {{<<k>> \o q : q \in LeafPaths(node.content[k])} :
                  k \in 1..Len(node.content)}

RECURSIVE NodeAt(_, _)
NodeAt(node, path) ==
    IF path = <<>> THEN node ELSE NodeAt(node.content[Head(path)], Tail(path))

RECURSIVE Ancestors(_, _)
\* The node types of the nodes enclosing the leaf at path, outermost first.
Ancestors(node, path) ==
    IF path = <<>> THEN <<>>
    ELSE <<node.nodeType>> \o Ancestors(node.content[Head(path)], Tail(path))

\* Paths of all Text leaves of the document, the top-level index first.
DocLeafPaths ==
    UNION {{<<k>> \o q : q \in LeafPaths(content[k])} : k \in 1..Len(content)}

LeafAt(path) == NodeAt(content[Head(path)], Tail(path))

AncestorsAt(path) == Ancestors(content[Head(path)], Tail(path))

\* The segments of a render block: of a text block, and of every table cell.
BlockSegments(b) ==
    IF b.type = "text" THEN Range(b.segments)
    ELSE IF b.type = "table"
    THEN UNION {UNION {Range(cell) : cell \in Range(row.cells)} : row \in Range(b.rows)}
    ELSE {}

PlanSegments(blks) == UNION {BlockSegments(b) : b \in Range(blks)}

\* A leaf the segments can be traced back to: its value is one character that
\* no other leaf of the document carries, and no table below the top level
\* encloses it (the walker flattens such a table's rows to synthetic segments).
Traceable(path) ==
    /\ Len(LeafAt(path).value) = 1
    /\ \A q \in DocLeafPaths :
         q # path => LeafAt(path).value[1] \notin Range(LeafAt(q).value)
    /\ \A k \in 2..Len(AncestorsAt(path)) : AncestorsAt(path)[k] # "table"

\* The segments of the plan that hold the text of the leaf at path.
SegmentsOf(path, blks) ==
    {sg \in PlanSegments(blks) : LeafAt(path).value[1] \in Range(sg.text)}

\* C1: for every Document, documentToRenderPlan and richTextToPlainString
\* return a result and never raise an error.
C1_NeverRaises ==
    ProperDocument => plan.status # "thrown" /\ plain.status # "thrown"

\* ---------------------------------------------------------------------- C2
\* The block a top-level node emits, when it emits one.
EmittedBy(node, b) ==
    CASE node.nodeType = "table" ->
           b.type = "table" /\ b.rows = processTableToRows(node).rows
      [] node.nodeType = "embedded-asset-block" ->
           b.type = "image" /\ Some(b.url) = assetUrl(node)
      [] node.nodeType = "embedded-entry-block" -> b = entryBlock(node)
      [] node.nodeType = "hr" -> b = [type |-> "hr"]
      [] OTHER ->
           /\ b.type = "text"
           /\ processBlock(node, DEFAULT_CONTEXT).ok
           /\ b.segments = mergeAdjacentSegments(processBlock(node, DEFAULT_CONTEXT).segs)

\* blks are emitted, in order, by distinct nodes among the first n top-level
\* nodes, and every hr among those nodes has emitted its hr block.
OrderedPlan(n, blks) ==
    /\ Len(blks) <= n
    /\ \E f \in [1..Len(blks) -> 1..n] :
         /\ \A j, k \in 1..Len(blks) : j < k => f[j] < f[k]
         /\ \A k \in 1..Len(blks) : EmittedBy(content[f[k]], blks[k])
         /\ \A m \in 1..n :
              content[m].nodeType = "hr" => \E k \in 1..Len(blks) : f[k] = m

\* C2: documentToRenderPlan emits at most one render block per top-level
\* node, in the order of the nodes that produced them, and every top-level hr
\* yields exactly one hr block; an empty document yields an empty block list.
C2_OrderedBlocks ==
    /\ pc = "plan" => OrderedPlan(i - 1, blocks)
    /\ plan.status = "returned" => OrderedPlan(Len(content), plan.blocks)

C2_Witness ==
    /\ plan.status = "returned"
    /\ Len(content) = 2
    /\ content[1].nodeType = "paragraph"
    /\ content[2].nodeType = "hr"
    /\ plan.blocks = <<[type |-> "hr"]>>

\* ---------------------------------------------------------------------- C3
LinkUnderlined(sg) == sg.hyperlink # None => sg.underline = TRUE

\* C3: every segment of a render plan whose hyperlink is non-null has
\* underline = true, in text blocks and table cells, before and after merging.
C3_LinkUnderlined ==
    /\ \A sg \in PlanSegments(blocks) : LinkUnderlined(sg)
    /\ plan.status = "returned" => \A sg \in PlanSegments(plan.blocks) : LinkUnderlined(sg)
    /\ ProperDocument =>
         \A k \in 1..Len(content) :
            /\ \A sg \in Range(processBlock(content[k], DEFAULT_CONTEXT).segs) :
                 LinkUnderlined(sg)
            /\ content[k].nodeType = "table" =>
                 \A sg \in BlockSegments(
                             [type |-> "table", rows |-> processTableToRows(content[k]).rows]) :
                    LinkUnderlined(sg)

\* A linked segment in a table cell, in a document without any underline mark.
C3_Witness ==
    /\ plan.status = "returned"
    /\ \A q \in DocLeafPaths : ~hasMarks(LeafAt(q), "underline")
    /\ \E b \in Range(plan.blocks) :
         /\ b.type = "table"
         /\ \E sg \in BlockSegments(b) : sg.hyperlink = Some(URI) /\ sg.underline

\* ---------------------------------------------------------------------- C4
HeadingNames ==
    <<"heading-1", "heading-2", "heading-3", "heading-4", "heading-5", "heading-6">>

RECURSIVE NearestHeading(_)
\* N when the innermost heading among the enclosing node types is heading-N,
\* 0 when there is none.
NearestHeading(types) ==
    IF types = <<>> THEN 0
    ELSE LET t == types[Len(types)]
         IN IF \E n \in 1..6 : HeadingNames[n] = t
            THEN CHOOSE n \in 1..6 : HeadingNames[n] = t
            ELSE NearestHeading(SubSeq(types, 1, Len(types) - 1))

\* C4: a segment produced from a Text leaf has headingLevel N exactly when the
\* leaf's nearest enclosing heading block is heading-N, and 0 when no heading
\* encloses it; a heading leaves the level of its sibling blocks' segments alone.
C4_HeadingLevel ==
    plan.status = "returned" =>
      \A q \in DocLeafPaths :
         Traceable(q) =>
           \A sg \in SegmentsOf(q, plan.blocks) :
              sg.headingLevel = NearestHeading(AncestorsAt(q))

\* Inside a list item inside a blockquote: a heading-1 sibling before a
\* heading-2, each with its own level.
C4_Witness ==
    /\ plan.status = "returned"
    /\ \E q, r \in DocLeafPaths :
         /\ Traceable(q) /\ Traceable(r)
         /\ Len(q) = 5 /\ Len(r) = 5
         /\ SubSeq(q, 1, 3) = SubSeq(r, 1, 3)
         /\ q[4] < r[4]
         /\ AncestorsAt(q)[1] = "blockquote"
         /\ AncestorsAt(q)[3] = "list-item"
         /\ \E sg \in SegmentsOf(q, plan.blocks) : sg.headingLevel = 1
         /\ \E sg \in SegmentsOf(r, plan.blocks) : sg.headingLevel = 2

\* ---------------------------------------------------------------------- C5
ListNames == {"unordered-list", "ordered-list"}

\* The positions of the list-items through which a list is entered.
EnteredItems(types) ==
    {k \in 2..Len(types) : types[k] = "list-item" /\ types[k - 1] \in ListNames}

ListDepth(types) == Cardinality(EnteredItems(types))

InnermostList(types) ==
    IF EnteredItems(types) = {} THEN "null"
    ELSE LET k == CHOOSE m \in EnteredItems(types) :
                     \A n \in EnteredItems(types) : n <= m
         IN IF types[k - 1] = "unordered-list" THEN "unordered" ELSE "ordered"

\* C5: a segment produced from a Text leaf inside k nested lists has
\* listIndent k and the listType of the innermost enclosing list; outside
\* every list it has listIndent 0 and listType null.
C5_ListIndent ==
    plan.status = "returned" =>
      \A q \in DocLeafPaths :
         Traceable(q) =>
           \A sg \in SegmentsOf(q, plan.blocks) :
              /\ sg.listIndent = ListDepth(AncestorsAt(q))
              /\ sg.listType = InnermostList(AncestorsAt(q))

\* An ordered list nested in an unordered list's item, followed in that item
\* by a block that has the outer item's indent and type again.
C5_Witness ==
    /\ plan.status = "returned"
    /\ \E q, r \in DocLeafPaths :
         /\ Traceable(q) /\ Traceable(r)
         /\ Len(q) > 3 /\ Len(r) > 3
         /\ q[1] = r[1] /\ q[2] = r[2] /\ q[3] < r[3]
         /\ ListDepth(AncestorsAt(q)) = 2
         /\ AncestorsAt(q)[Len(AncestorsAt(q))] = "paragraph"
         /\ ListDepth(AncestorsAt(r)) = 1
         /\ \E sg \in SegmentsOf(q, plan.blocks) :
              sg.listIndent = 2 /\ sg.listType = "ordered"
         /\ \E sg \in SegmentsOf(r, plan.blocks) :
              sg.listIndent = 1 /\ sg.listType = "unordered"

\* ---------------------------------------------------------------------- C6
\* Two segments agree on all eight formatting fields.
Agree(a, b) == [a EXCEPT !.text = <<>>] = [b EXCEPT !.text = <<>>]

\* The first index of every maximal run of consecutive agreeing segments.
RunStarts(s) == {k \in 1..Len(s) : k = 1 \/ ~Agree(s[k - 1], s[k])}

\* The start of the j-th run, and the index after its last segment.
RunStart(s, j) ==
    CHOOSE k \in RunStarts(s) : Cardinality({m \in RunStarts(s) : m < k}) = j - 1

RunEnd(s, j) ==
    IF j = Cardinality(RunStarts(s)) THEN Len(s) + 1 ELSE RunStart(s, j + 1)

RECURSIVE TextFrom(_, _, _)
\* The texts of s[from..to-1] concatenated in order.
TextFrom(s, from, to) ==
    IF from >= to THEN <<>> ELSE s[from].text \o TextFrom(s, from + 1, to)

Returned1 == [k \in 1..Len(merged.objects) |-> merged.objects[k].seg]

Returned2 == [k \in 1..Len(remerged.objects) |-> remerged.objects[k].seg]

\* C6: mergeAdjacentSegments(s) is the sequence of the maximal runs of
\* consecutive segments of s that agree on all eight fields, each with the
\* run's formatting and the in-order concatenation of its texts; no two
\* adjacent outputs agree, the output is not longer than s, and empty gives empty.
C6_MaximalRuns ==
    merged.status = "returned" =>
      /\ Len(Returned1) = Cardinality(RunStarts(segments))
      /\ Len(Returned1) <= Len(segments)
      /\ segments = <<>> => Returned1 = <<>>
      /\ \A j \in 1..Len(Returned1) :
           /\ Agree(Returned1[j], segments[RunStart(segments, j)])
           /\ Returned1[j].text =
                TextFrom(segments, RunStart(segments, j), RunEnd(segments, j))
      /\ \A j \in 2..Len(Returned1) : ~Agree(Returned1[j - 1], Returned1[j])

\* Three segments, the first two one run and the third differing in the
\* hyperlink only.
C6_Witness ==
    /\ merged.status = "returned"
    /\ Len(segments) = 3
    /\ segments[1].text = <<"1">> /\ segments[2].text = <<"2">>
    /\ segments[3] = [segments[2] EXCEPT !.hyperlink = Some(URI)]
    /\ Len(Returned1) = 2
    /\ Returned1[1].text = <<"1", "2">>

\* ---------------------------------------------------------------------- C7
\* C7: mergeAdjacentSegments is idempotent: merging its result again yields
\* an equal sequence.
C7_Idempotent == remerged.status = "returned" => Returned2 = Returned1

\* A second merge of a result that the first merge shortened.
C7_Witness ==
    /\ remerged.status = "returned"
    /\ Len(Returned1) < Len(segments)
    /\ Len(Returned1) > 1
    /\ Returned2 = Returned1

\* ---------------------------------------------------------------------- C8
\* The asset's file URL: file["en-US"].url of a localized file, file.url of a
\* plain one.
FileUrl(node) ==
    IF node.data.target = None THEN None
    ELSE IF node.data.target[1].fields = None THEN None
    ELSE LET file == node.data.target[1].fields[1].file
         IN CASE file.t = "plain" -> file.url
              [] file.t = "localized" /\ file.enUS # None -> file.enUS[1].url
              [] OTHER -> None

\* The en-US entry of a localized title or the plain title, when not empty.
UsableTitle(node) ==
    IF node.data.target = None THEN None
    ELSE IF node.data.target[1].fields = None THEN None
    ELSE LET title == node.data.target[1].fields[1].title
             found == CASE title.t = "string" -> Some(title.s)
                        [] title.t = "object" -> title.enUS
                        [] OTHER -> None
         IN IF found = Some(<<>>) THEN None ELSE found

TitleOr(node, fallback) ==
    IF UsableTitle(node) = None THEN fallback ELSE UsableTitle(node)[1]

IsAssetWithUrl(node) ==
    node.nodeType = "embedded-asset-block" /\ FileUrl(node) \notin {None, Some(<<>>)}

IsImage(b) == b.type = "image"

ProtocolRelative(u) == Len(u) >= 2 /\ u[1] = "/" /\ u[2] = "/"

\* C8: a top-level embedded-asset-block emits an image block iff its asset has
\* a non-empty file URL; for a protocol-relative URL u the block's url is
\* "https:" followed by u, and its title is the asset's title, or "image".
C8_ImageBlocks ==
    plan.status = "returned" =>
      LET assets == SelectSeq(content, IsAssetWithUrl)
          images == SelectSeq(plan.blocks, IsImage)
      IN /\ Len(images) = Len(assets)
         /\ \A k \in 1..Len(images) :
              /\ ProtocolRelative(FileUrl(assets[k])[1]) =>
                   images[k].url = <<"h", "t", "t", "p", "s", ":">> \o FileUrl(assets[k])[1]
              /\ images[k].title = TitleOr(assets[k], <<"i", "m", "a", "g", "e">>)

\* An asset with a localized protocol-relative file URL and no title.
C8_Witness ==
    /\ plan.status = "returned"
    /\ Len(content) = 1
    /\ IsAssetWithUrl(content[1])
    /\ content[1].data.target[1].fields[1].file.t = "localized"
    /\ UsableTitle(content[1]) = None
    /\ plan.blocks =
         <<[type |-> "image",
            url |-> <<"h", "t", "t", "p", "s", ":", "/", "/", "h">>,
            title |-> <<"i", "m", "a", "g", "e">>]>>

\* ---------------------------------------------------------------------- C9
\* C9: richTextToPlainString renders a top-level embedded-asset-block as the
\* line "[<title>]", and as the line "[image]" when it has no usable title.
C9_AssetLine ==
    (plain.status = "returned" /\ ProperDocument /\ Len(content) = 1
       /\ content[1].nodeType = "embedded-asset-block") =>
      plain.text = <<"[">> \o TitleOr(content[1], <<"i", "m", "a", "g", "e">>) \o <<"]">>

\* --------------------------------------------------------------------- C10
RECURSIVE LeafText(_)
\* The values of the Text leaves below a node, concatenated in order.
LeafText(node) ==
    IF node.nodeType = "text" THEN node.value
    ELSE join([k \in 1..Len(node.content) |-> LeafText(node.content[k])], <<>>)

IsRow(node) == node.nodeType = "table-row"

\* One line per table-row: the row's cell texts joined by a tab.
RowLines(table) ==
    LET rows == SelectSeq(table.content, IsRow)
    IN [r \in 1..Len(rows) |->
          join([c \in 1..Len(rows[r].content) |-> LeafText(rows[r].content[c])],
               <<"\t">>)]

\* Every child of the table is a table-row of cells that each hold some text.
FilledTable(table) ==
    \A r \in 1..Len(table.content) :
       /\ IsRow(table.content[r])
       /\ Len(table.content[r].content) > 0
       /\ \A c \in 1..Len(table.content[r].content) :
            LeafText(table.content[r].content[c]) # <<>>

\* C10: richTextToPlainString renders a top-level table as one line per
\* table-row, in order, each the row's cell texts joined by a tab, with
\* consecutive rows separated by a newline (stated for the tables whose
\* cells all hold text).
C10_TableLines ==
    (plain.status = "returned" /\ ProperDocument /\ Len(content) = 1
       /\ content[1].nodeType = "table" /\ FilledTable(content[1])) =>
      plain.text = join(RowLines(content[1]), <<"\n">>)

\* --------------------------------------------------------------------- C11
IsTextBlock(b) == b.type = "text"

\* C11: a top-level text-bearing block that resolves to zero text (no Text
\* leaves, or only Text leaves with an empty value) contributes no block:
\* every emitted text block has at least one segment and a non-empty
\* concatenated text.
C11_NoEmptyTextBlock ==
    plan.status = "returned" =>
      \A b \in Range(plan.blocks) :
         IsTextBlock(b) => Len(b.segments) > 0 /\ textOf(b.segments) # <<>>

\* --------------------------------------------------------------------- C12
HasRows(node) ==
    node.nodeType = "table" /\ \E k \in 1..Len(node.content) : IsRow(node.content[k])

IsTableBlock(b) == b.type = "table"

\* The rows of a table block against the table-row children of its table: one
\* row per table-row, one cell per child of the row, both in source order
\* (the cell's text is the text below that child), and isHeader iff some
\* direct child of the row is a table-header-cell.
RowsOf(table, b) ==
    LET rows == SelectSeq(table.content, IsRow)
    IN /\ Len(b.rows) = Len(rows)
       /\ \A r \in 1..Len(rows) :
            /\ Len(b.rows[r].cells) = Len(rows[r].content)
            /\ b.rows[r].isHeader <=>
                 \E c \in 1..Len(rows[r].content) :
                    rows[r].content[c].nodeType = "table-header-cell"
            /\ \A c \in 1..Len(rows[r].content) :
                 textOf(b.rows[r].cells[c]) = LeafText(rows[r].content[c])

\* C12: the table blocks of a plan are, in order, those of the top-level
\* tables that have a table-row child; each has exactly one row per table-row
\* child in source order (other children are skipped), each row one cell per
\* child of that row in source order, and isHeader iff at least one direct
\* child is a table-header-cell; a table with no table-row emits no block.
C12_TableRows ==
    plan.status = "returned" =>
      LET tables == SelectSeq(content, HasRows)
          emitted == SelectSeq(plan.blocks, IsTableBlock)
      IN /\ Len(emitted) = Len(tables)
         /\ \A k \in 1..Len(emitted) : RowsOf(tables[k], emitted[k])

\* A table of a header row with two cells, a skipped paragraph child after it.
C12_Witness ==
    /\ plan.status = "returned"
    /\ Len(content) = 1
    /\ content[1].nodeType = "table"
    /\ Len(content[1].content) = 2
    /\ content[1].content[1].nodeType = "table-row"
    /\ content[1].content[2].nodeType = "paragraph"
    /\ Len(plan.blocks) = 1
    /\ Len(plan.blocks[1].rows) = 1
    /\ Len(plan.blocks[1].rows[1].cells) = 2
    /\ plan.blocks[1].rows[1].isHeader

\* --------------------------------------------------------------------- C13
\* sys.id of the entry, when present and not empty.
UsableId(node) ==
    IF node.data.target = None THEN None
    ELSE IF node.data.target[1].sys \in {None, Some(None), Some(Some(<<>>))} THEN None
    ELSE node.data.target[1].sys[1]

\* The first non-empty of the title, sys.id and "entry".
EntryTitle(node) ==
    IF UsableTitle(node) # None THEN UsableTitle(node)[1]
    ELSE IF UsableId(node) # None THEN UsableId(node)[1]
    ELSE <<"e", "n", "t", "r", "y">>

EntryLine(node) ==
    <<"[", "E", "m", "b", "e", "d", "d", "e", "d", ":", " ">> \o EntryTitle(node) \o <<"]">>

EntryTextBlock(node) ==
    [type |-> "text",
     segments |-> <<[text |-> EntryLine(node), bold |-> FALSE, italic |-> TRUE,
                     underline |-> FALSE, code |-> FALSE, headingLevel |-> 0,
                     listType |-> "null", listIndent |-> 0, hyperlink |-> None]>>]

IsEntry(node) == node.nodeType = "embedded-entry-block"

\* C13: a top-level embedded-entry-block emits exactly one text block of one
\* segment "[Embedded: <title>]", italic, every other flag false, heading 0,
\* no list, indent 0, no hyperlink, the title being the first non-empty of
\* the en-US or plain title, sys.id and "entry"; richTextToPlainString
\* produces the same text as the block's line.
C13_EntryBlock ==
    /\ (pc = "plan" /\ i > 1 /\ IsEntry(content[i - 1])) =>
         /\ Len(blocks) > 0
         /\ blocks[Len(blocks)] = EntryTextBlock(content[i - 1])
    /\ (pc = "plain" /\ i > 1 /\ IsEntry(content[i - 1])) =>
         /\ Len(lines) > 0
         /\ lines[Len(lines)] = EntryLine(content[i - 1])
    /\ (ProperDocument /\ Len(content) = 1 /\ IsEntry(content[1])) =>
         /\ plan.status = "returned" => plan.blocks = <<EntryTextBlock(content[1])>>
         /\ plain.status = "returned" => plain.text = EntryLine(content[1])

\* An entry with an empty title and an id, through both functions.
C13_Witness ==
    /\ plan.status = "returned"
    /\ plain.status = "returned"
    /\ Len(content) = 1
    /\ IsEntry(content[1])
    /\ localizedTitle(content[1]) = Some(<<>>)
    /\ plain.text = <<"[", "E", "m", "b", "e", "d", "d", "e", "d", ":", " ", "i", "]">>
    /\ plan.blocks[1].segments[1].text = plain.text

\* --------------------------------------------------------------------- C14
\* The node that owns the leaf at path.
ParentAt(path) == NodeAt(content[Head(path)], SubSeq(path, 2, Len(path) - 1))

\* The URL a hyperlink's target resolves to: data.uri, otherwise
\* data.target.fields.file.url, when not empty.
HrefOf(inline) ==
    IF inline.data.uri \notin {None, Some(<<>>)} THEN inline.data.uri
    ELSE IF inline.data.target = None THEN None
    ELSE IF inline.data.target[1].fields = None THEN None
    ELSE LET file == inline.data.target[1].fields[1].file
         IN IF file.t = "plain" /\ file.url \notin {None, Some(<<>>)}
            THEN file.url ELSE None

OwnMarks(leaf, sg) ==
    /\ sg.bold = hasMarks(leaf, "bold")
    /\ sg.italic = hasMarks(leaf, "italic")
    /\ sg.underline = hasMarks(leaf, "underline")
    /\ sg.code = hasMarks(leaf, "code")

InLink(path) == Len(path) > 1 /\ isHyperlink(ParentAt(path).nodeType)

\* C14: for every hyperlink-variant inline the walk reaches, whichever block
\* it is a child of, whose target resolves to a non-empty URL, the segment of
\* each of its Text children has that URL as hyperlink; when no URL resolves
\* the segments have hyperlink null and only the flags of their own marks.
C14_LinkTarget ==
    plan.status = "returned" =>
      \A q \in DocLeafPaths :
         (Traceable(q) /\ InLink(q)) =>
           \A sg \in SegmentsOf(q, plan.blocks) :
              IF HrefOf(ParentAt(q)) # None
              THEN sg.hyperlink = HrefOf(ParentAt(q))
              ELSE sg.hyperlink = None /\ OwnMarks(LeafAt(q), sg)

\* --------------------------------------------------------------------- C15
RECURSIVE EntryPaths(_)
\* The paths of the embedded-entry-inline nodes at or below a node.
EntryPaths(node) ==
    IF node.nodeType = "text" THEN {}
    ELSE (IF node.nodeType = "embedded-entry-inline" THEN {<<>>} ELSE {})
         \cup UNION {{<<k>> \o q : q \in EntryPaths(node.content[k])} :
                       k \in 1..Len(node.content)}

\* The entries below a top-level block that are children of a paragraph or heading.
EntriesInText(block) ==
    {q \in EntryPaths(block) :
        /\ q # <<>>
        /\ NodeAt(block, SubSeq(q, 1, Len(q) - 1)).nodeType
             \in {"paragraph"} \cup Range(HeadingNames)}

\* The synthetic segment of the entry at path q below a top-level block.
SyntheticSegment(block, q) ==
    LET types == Ancestors(block, q)
    IN [text |-> <<"[">> \o EntryTitle(NodeAt(block, q)) \o <<"]">>,
        bold |-> FALSE, italic |-> TRUE, underline |-> FALSE, code |-> FALSE,
        headingLevel |-> NearestHeading(types),
        listType |-> InnermostList(types),
        listIndent |-> ListDepth(types),
        hyperlink |-> None]

EndsWith(text, suffix) ==
    /\ Len(suffix) <= Len(text)
    /\ SubSeq(text, Len(text) - Len(suffix) + 1, Len(text)) = suffix

\* C15: for every embedded-entry-inline child of a paragraph or heading the
\* walker appends exactly one synthetic segment after the segments of the
\* node's Text children: text "[<title>]" (title, else sys.id, else "entry"),
\* italic, not bold, underlined or code, no hyperlink, and the heading level,
\* list type and list indent of the current context; also without Text children.
C15_InlineEntry ==
    (plan.status = "returned" /\ Len(content) = 1 /\ content[1].nodeType # "table") =>
      \A q \in EntriesInText(content[1]) :
         LET segs == plan.blocks[1].segments
             at == {k \in 1..Len(segs) : segs[k] = SyntheticSegment(content[1], q)}
             own == LeafText(NodeAt(content[1], q))
         IN /\ Cardinality(at) = 1
            /\ own # <<>> =>
                 \A k \in at : k > 1 /\ EndsWith(segs[k - 1].text, own)

\* An entry without Text children and without a title, in a heading of an
\* ordered list's item: the id in brackets with the heading's and list's context.
C15_Witness ==
    /\ plan.status = "returned"
    /\ Len(content) = 1
    /\ content[1].nodeType = "ordered-list"
    /\ EntriesInText(content[1]) = {<<1, 1, 1>>}
    /\ NodeAt(content[1], <<1, 1, 1>>).content = <<>>
    /\ plan.blocks[1].segments =
         <<[text |-> <<"[", "i", "]">>, bold |-> FALSE, italic |-> TRUE,
            underline |-> FALSE, code |-> FALSE, headingLevel |-> 3,
            listType |-> "ordered", listIndent |-> 1, hyperlink |-> None]>>

\* --------------------------------------------------------------------- C16
\* The line a top-level block produces, <<>> when it produces none: "---" for
\* an hr, the bracketed lines of the embedded blocks, and for a text-bearing
\* block the concatenation of its segment texts.
LineOf(block) ==
    CASE block.nodeType = "hr" -> <<"-", "-", "-">>
      [] block.nodeType = "embedded-asset-block" -> plainAssetLine(block)
      [] block.nodeType = "embedded-entry-block" -> EntryLine(block)
      [] OTHER -> textOf(processBlock(block, DEFAULT_CONTEXT).segs)

NonEmpty(line) == line # <<>>

ExpectedLines == SelectSeq([k \in 1..Len(content) |-> LineOf(content[k])], NonEmpty)

\* The positions of the newlines of a text, with both ends added.
Breaks(text) == {0, Len(text) + 1} \cup {p \in 1..Len(text) : text[p] = "\n"}

\* The k-th piece of a text cut at its newlines.
Piece(text, k) ==
    LET from == CHOOSE p \in Breaks(text) :
                   Cardinality({r \in Breaks(text) : r < p}) = k - 1
        to == CHOOSE p \in Breaks(text) :
                 Cardinality({r \in Breaks(text) : r < p}) = k
    IN SubSeq(text, from + 1, to - 1)

\* text is the lines joined by one newline each, none before or after.
JoinedLines(text, ls) ==
    IF ls = <<>> THEN text = <<>>
    ELSE /\ Cardinality(Breaks(text)) = Len(ls) + 1
         /\ \A k \in 1..Len(ls) : Piece(text, k) = ls[k]

\* C16: richTextToPlainString returns "" when the document or its content is
\* absent or empty; otherwise the lines of the top-level blocks in document
\* order joined by exactly one newline, none leading or trailing, an hr giving
\* "---" and a text-bearing block the concatenation of its segment texts only
\* when that is non-empty.
C16_PlainLines ==
    plain.status = "returned" =>
      IF ~ProperDocument THEN plain.text = <<>>
      ELSE IF content = <<>> THEN plain.text = <<>>
      ELSE JoinedLines(plain.text, ExpectedLines)

\* A paragraph, then an hr: two lines and one newline between them.
C16_Witness ==
    /\ plain.status = "returned"
    /\ ProperDocument
    /\ Len(content) = 2
    /\ content[1].nodeType = "paragraph"
    /\ content[2].nodeType = "hr"
    /\ plain.text = <<"1", "\n", "-", "-", "-">>

\* --------------------------------------------------------------------- C17
\* A second call has finished after a first one, with equal outcomes.
SamePlan == (planBefore # NotCalled /\ plan # NotCalled) => plan = planBefore

SamePlain == (plainBefore # NotCalled /\ plain # NotCalled) => plain = plainBefore

\* C17: over any sequence of calls of documentToRenderPlan and
\* richTextToPlainString no step changes the input Document or the shared
\* root context (heading 0, no list, indent 0, not blockquote), and a later
\* call on the same document returns a result equal to the first call's.
C17_InputsUnchanged ==
    /\ [][doc' = doc /\ context' = context]_vars
    /\ [](context = [headingLevel |-> 0, listType |-> "null", listIndent |-> 0,
                     isBlockquote |-> FALSE])
    /\ [](SamePlan /\ SamePlain)

\* Both functions called twice on a document of a heading followed by a
\* paragraph, whose segment has the root context's level both times.
C17_Witness ==
    /\ planBefore.status = "returned"
    /\ plan.status = "returned"
    /\ plainBefore.status = "returned"
    /\ plain.status = "returned"
    /\ Len(content) = 2
    /\ content[1].nodeType = "heading-2"
    /\ content[2].nodeType = "paragraph"
    /\ Len(plan.blocks) = 2
    /\ plan.blocks[2].segments[1].headingLevel = 0
    /\ plan = planBefore
    /\ plain = plainBefore

\* --------------------------------------------------------------------- C18
TextParents == {"paragraph"} \cup Range(HeadingNames)

\* The leaf at path is a direct child of a paragraph or heading.
InText(path) == Len(path) > 1 /\ ParentAt(path).nodeType \in TextParents

\* The marks of a leaf contain a mark of the type.
Marked(leaf, type) == leaf.marks # None /\ type \in Range(leaf.marks[1])

FlagsOf(leaf, sg) ==
    /\ sg.bold <=> Marked(leaf, "bold")
    /\ sg.italic <=> Marked(leaf, "italic")
    /\ sg.underline <=> Marked(leaf, "underline")
    /\ sg.code <=> Marked(leaf, "code")

\* A document of one paragraph or heading whose only child is a Text leaf.
OneLeaf ==
    /\ ProperDocument
    /\ Len(content) = 1
    /\ content[1].nodeType \in TextParents
    /\ Len(content[1].content) = 1
    /\ content[1].content[1].nodeType = "text"

\* C18: the segment of a Text leaf that is a direct child of a paragraph or
\* heading has the leaf's value as text, hyperlink null, and bold, italic,
\* underline and code true exactly when the marks contain a mark of that
\* type; other marks and absent marks change no flag and raise no error.
C18_MarkFlags ==
    /\ plan.status = "returned" =>
         \A q \in DocLeafPaths :
            (Traceable(q) /\ InText(q)) =>
              \A sg \in SegmentsOf(q, plan.blocks) :
                 FlagsOf(LeafAt(q), sg) /\ sg.hyperlink = None
    /\ OneLeaf =>
         /\ plan.status # "thrown"
         /\ plain.status # "thrown"
         /\ plan.status = "returned" =>
              /\ Len(plan.blocks) = 1
              /\ Len(plan.blocks[1].segments) = 1
              /\ plan.blocks[1].segments[1].text = content[1].content[1].value
              /\ plan.blocks[1].segments[1].hyperlink = None
              /\ FlagsOf(content[1].content[1], plan.blocks[1].segments[1])

\* A leaf marked italic and code, alone in a paragraph.
C18_Witness ==
    /\ OneLeaf
    /\ plan.status = "returned"
    /\ content[1].content[1].marks = Some(<<"italic", "code">>)
    /\ content[1].content[1].value = <<"1">>
    /\ plan.blocks[1].segments[1].italic /\ plan.blocks[1].segments[1].code
    /\ ~plan.blocks[1].segments[1].bold /\ ~plan.blocks[1].segments[1].underline

\* --------------------------------------------------------------------- C19
\* The node types the blocks of the plan are rendered as, in plan order.
ChildType(block) ==
    CASE block.type = "image" -> "RECTANGLE"
      [] block.type = "table" -> "FRAME"
      [] OTHER -> "TEXT"

Settled == rendered \in {"resolved", "rejected"}

\* C19: a font load or image load that fails while one block is rendered does
\* not abort the rendering of the other blocks: when applyMixedContentPlan
\* has settled, every block of the plan has its child node in the frame, in
\* plan order, the frame is attached to the parent and the original text
\* node is removed.
C19_NoAbort ==
    Settled =>
      /\ Len(frame) = Len(renderBlocks)
      /\ \A k \in 1..Len(frame) : frame[k].type = ChildType(renderBlocks[k])
      /\ "frame" \in Range(parent)
      /\ "node" \notin Range(parent)

\* --------------------------------------------------------------------- C20
\* C20: mergeAdjacentSegments does not modify its input: after the call the
\* input sequence and every input segment (the first one's text included)
\* have the values they had before, and no segment of the output is the same
\* object as a segment of the input, also for a one-segment input.
C20_InputUntouched ==
    merged.status = "returned" =>
      /\ merged.input = segments
      /\ \A k \in 1..Len(merged.objects) : merged.objects[k].obj = 0

\* --------------------------------------------------------------------- C21
HasScheme(u) ==
    \E p \in 1..Len(u) : u[p] = ":" /\ \A q \in 1..(p - 1) : u[q] # "/"

\* C21: for every top-level embedded-asset-block with a non-empty file URL u
\* the url of the emitted image block is exactly "https:" followed by u,
\* whatever u starts with: a URL that already carries a scheme is prefixed
\* too, never emitted unchanged.
C21_AlwaysPrefixed ==
    plan.status = "returned" =>
      LET assets == SelectSeq(content, IsAssetWithUrl)
          images == SelectSeq(plan.blocks, IsImage)
      IN /\ Len(images) = Len(assets)
         /\ \A k \in 1..Len(images) :
              /\ images[k].url = <<"h", "t", "t", "p", "s", ":">> \o FileUrl(assets[k])[1]
              /\ images[k].url # FileUrl(assets[k])[1]

\* An asset whose file URL already carries the https scheme.
C21_Witness ==
    /\ plan.status = "returned"
    /\ Len(content) = 1
    /\ IsAssetWithUrl(content[1])
    /\ HasScheme(FileUrl(content[1])[1])
    /\ Len(plan.blocks) = 1
    /\ plan.blocks[1].url =
         <<"h", "t", "t", "p", "s", ":", "h", "t", "t", "p", "s", ":", "/", "/", "h">>

\* --------------------------------------------------------------------- C22
TextBearing(block) ==
    block.nodeType \notin {"table", "hr", "embedded-asset-block", "embedded-entry-block"}

AllTextBearing == \A k \in 1..Len(content) : TextBearing(content[k])

\* The concatenated segment texts of the plan's blocks, in order.
PlanTexts == [k \in 1..Len(plan.blocks) |-> textOf(plan.blocks[k].segments)]

RECURSIVE NewlineJoined(_)
\* The strings with one newline between each two of them.
NewlineJoined(strs) ==
    IF strs = <<>> THEN <<>>
    ELSE IF Len(strs) = 1 THEN strs[1]
    ELSE NewlineJoined(SubSeq(strs, 1, Len(strs) - 1)) \o <<"\n">> \o strs[Len(strs)]

BothReturned == plan.status = "returned" /\ plain.status = "returned"

\* C22: for a document whose top-level blocks are all text-bearing the string
\* richTextToPlainString returns is the newline-join, in order, of the
\* non-empty concatenated segment texts of the text blocks that
\* documentToRenderPlan returns for the same document.
C22_PlainIsPlanText ==
    (BothReturned /\ ProperDocument /\ AllTextBearing) =>
      /\ \A k \in 1..Len(plan.blocks) : IsTextBlock(plan.blocks[k])
      /\ plain.text = NewlineJoined(SelectSeq(PlanTexts, NonEmpty))

\* A paragraph of one empty leaf, then a heading: the plan has two text
\* blocks, the plain string the one line of the heading.
C22_Witness ==
    /\ BothReturned
    /\ ProperDocument
    /\ AllTextBearing
    /\ Len(content) = 2
    /\ Len(plan.blocks) = 2
    /\ PlanTexts = <<<<>>, <<"2">>>>
    /\ plain.text = <<"2">>

\* --------------------------------------------------------------------- C23
\* The segments the call works on, and the range the formatting pass computes
\* for each of them.
AppliedSegments == allSegmentsOf(applyBlocks)

ComputedRanges == rangeBounds(AppliedSegments, 0, 0)

HasText(b) == b.seg.text # <<>>

\* C23: in applyTextBlocksToNode the range [segStart, segEnd) the formatting
\* pass computes for a segment covers exactly that segment's text inside the
\* string assigned to node.characters, and segEnd never exceeds that string's
\* length, for any sequence of text and hr blocks: the list prefixes (indent,
\* bullet, ordered counter and its resets) are the same in both passes.  So
\* every segment with text has its range formatted.
C23_RangesCoverText ==
    (applied.status = "returned" /\ AppliedSegments # <<>>) =>
      LET characters == applied.node.characters
          formatted == SelectSeq(ComputedRanges, HasText)
      IN /\ \A k \in 1..Len(AppliedSegments) :
              /\ ComputedRanges[k].segStart >= 0
              /\ ComputedRanges[k].segEnd <= Len(characters)
              /\ SubSeq(characters, ComputedRanges[k].segStart + 1,
                        ComputedRanges[k].segEnd) = AppliedSegments[k].text
         /\ Len(applied.node.ranges) = Len(formatted)
         /\ \A k \in 1..Len(formatted) :
              /\ applied.node.ranges[k].start = formatted[k].segStart
              /\ applied.node.ranges[k].end = formatted[k].segEnd

\* An indented ordered item, a bullet and an ordered item again, followed by
\* a list of eleven ordered segments: the counter restarts after the bullet
\* and after the separator, and reaches two digits.
C23_Witness ==
    /\ applied.status = "returned"
    /\ Len(applyBlocks) = 2
    /\ applyBlocks[2].type = "text"
    /\ applyBlocks[2].segments = LongList
    /\ SubSeq(applied.node.characters, 1, 16) =
         <<" ", " ", "1", ".", " ", "1", "u2022", " ", "2", "1", ".", " ", "3", "\n",
           "1", ".">>
    /\ Len(applied.node.characters) = 60
    /\ Len(applied.node.ranges) = 15
    /\ applied.node.ranges[1].start = 5 /\ applied.node.ranges[1].end = 6
    /\ applied.node.ranges[15].start = 59 /\ applied.node.ranges[15].end = 60
    /\ SubSeq(applied.node.characters, 56, 60) = <<"1", "1", ".", " ", "1">>
====
